---------------------------- MODULE Spec2Model ----------------------------
(***************************************************************************)
(* Acquisition-and-normalization pipeline of the real-estate back-end:     *)
(* the ScraperService dispatcher (api/scrapers_service.py), the provider   *)
(* adapters (scrapers/*.py) and the canonicalizer (api/utils.py).          *)
(*                                                                         *)
(* JSON / Python values are tagged records, so that values of different    *)
(* Python types can sit in one mapping:                                    *)
(*   None -> [t |-> "null"]        str   -> [t |-> "str",  s |-> "..."]    *)
(*   int  -> [t |-> "int", n]      bool  -> [t |-> "bool", b]              *)
(*   float-> [t |-> "float", m, e] (the decimal m / 10^e, normalised)      *)
(*   inf  -> [t |-> "inf", neg]    nan   -> [t |-> "nan"]                  *)
(*   dict -> [t |-> "map", m |-> function on its keys]                     *)
(*   list -> [t |-> "list", l |-> sequence]                                *)
(* Strings are TLA+ strings; characters are reached with SubSeq.           *)
(***************************************************************************)
EXTENDS Integers, Sequences, FiniteSets, TLC

(* ------------------------------ bounds -------------------------------- *)

\* Most fields a raw listing built by the canonicalizer harness may hold.
MaxFields == 2

\* Most times one dispatch lets the James Edition status poll sleep.
MaxPolls == 2

(* ------------------------------- state -------------------------------- *)

VARIABLES
    hash_seed,      \* the process's string-hash randomisation (PYTHONHASHSEED)
    \* -- normalize_scraped_listing on drawn inputs
    phase,          \* position of the canonicalizer harness
    provider,       \* provider name handed to normalize_scraped_listing
    raw,            \* the mapping handed to normalize_scraped_listing
    normalized,     \* outcome of normalize_scraped_listing(provider, raw)
    renormalized,   \* outcome of normalizing the normalized mapping again
    \* -- the two price parsers on drawn price strings
    price_text,     \* the price text
    tokenized,      \* amount and currency IdealistaScraper._process_result takes
    parsed_price,   \* what normalize_scraped_listing parses from the text
    \* -- ScraperService
    apify_api_key,  \* self.apify_api_key
    workflows,      \* self.workflows: provider names in registration order
    pc,             \* where scrape_url stands
    post_url,       \* argument of the scrape_url call in progress
    validated,      \* providers whose url_validator the match loop has called
    matched_provider,
    scrape_calls,   \* providers whose scraper_callable has been invoked
    net_log,        \* HTTP requests sent, in order
    run_id,         \* JamesEditionScraper.scrape: id of the started actor run
    dataset_id,     \* JamesEditionScraper.scrape: dataset of the finished run
    polls,          \* the time.sleep calls of _wait_for_completion: their intervals
    adapter_result, \* what the adapter's scrape() returned or raised
    results,        \* what scraper_func(post_url) returned, once it has
    normalized_results,
    canon_calls,    \* calls of normalize_scraped_listing in this dispatch
    response        \* how scrape_url ended

canon_vars == <<phase, provider, raw, normalized, renormalized>>

price_vars == <<price_text, tokenized, parsed_price>>

service_vars == <<apify_api_key, workflows>>

request_vars ==
    <<pc, post_url, validated, matched_provider, scrape_calls, net_log, run_id,
      dataset_id, polls, adapter_result, results, normalized_results,
      canon_calls, response>>

vars == <<hash_seed, canon_vars, price_vars, service_vars, request_vars>>

(* ------------------------------ strings ------------------------------- *)

Ch(s, i) == SubSeq(s, i, i)

Digits == {"0", "1", "2", "3", "4", "5", "6", "7", "8", "9"}

IsDigit(c) == c \in Digits

LowerAlpha == "abcdefghijklmnopqrstuvwxyz"

UpperAlpha == "ABCDEFGHIJKLMNOPQRSTUVWXYZ"

\* str.isalpha() on one character (the ASCII letters; no other letter is
\* drawn as an input).  Currency signs such as the euro sign are not letters.
IsAlphaCh(c) ==
    \E i \in 1..26 : Ch(LowerAlpha, i) = c \/ Ch(UpperAlpha, i) = c

\* str.lower() on one character.
LowerCh(c) ==
    IF \E i \in 1..26 : Ch(UpperAlpha, i) = c
    THEN Ch(LowerAlpha, CHOOSE i \in 1..26 : Ch(UpperAlpha, i) = c)
    ELSE c

RECURSIVE Lower(_)
Lower(s) == IF s = "" THEN "" ELSE LowerCh(Ch(s, 1)) \o Lower(Tail(s))

\* str.isalpha(): non-empty and every character a letter.
IsAlpha(s) == s # "" /\ \A i \in 1..Len(s) : IsAlphaCh(Ch(s, i))

\* str.isdigit()
IsDigitStr(s) == s # "" /\ \A i \in 1..Len(s) : IsDigit(Ch(s, i))

RECURSIVE LStrip(_, _)
\* str.lstrip(chars): drop leading characters that are in the set cs.
LStrip(s, cs) ==
    IF s # "" /\ Ch(s, 1) \in cs THEN LStrip(Tail(s), cs) ELSE s

RECURSIVE RStrip(_, _)
\* str.rstrip(chars)
RStrip(s, cs) ==
    IF s # "" /\ Ch(s, Len(s)) \in cs
    THEN RStrip(SubSeq(s, 1, Len(s) - 1), cs)
    ELSE s

\* str.strip(): the only white space drawn as an input is the blank.
Strip(s) == RStrip(LStrip(s, {" "}), {" "})

StartsWith(s, p) == Len(s) >= Len(p) /\ SubSeq(s, 1, Len(p)) = p

EndsWith(s, p) ==
    Len(s) >= Len(p) /\ SubSeq(s, Len(s) - Len(p) + 1, Len(s)) = p

\* sub in s
Contains(s, sub) ==
    \E i \in 1..(Len(s) - Len(sub) + 1) : SubSeq(s, i, i + Len(sub) - 1) = sub

\* s.find(sub) as a 1-based index, 0 when absent.
Find(s, sub) ==
    IF Contains(s, sub)
    THEN CHOOSE i \in 1..(Len(s) - Len(sub) + 1) :
            /\ SubSeq(s, i, i + Len(sub) - 1) = sub
            /\ \A j \in 1..(i - 1) : SubSeq(s, j, j + Len(sub) - 1) # sub
    ELSE 0

RECURSIVE Filter(_, _)
\* "".join(ch for ch in s if ch in keep), keep a set of characters.
Filter(s, keep) ==
    IF s = "" THEN ""
    ELSE (IF Ch(s, 1) \in keep THEN Ch(s, 1) ELSE "") \o Filter(Tail(s), keep)

RECURSIVE ReplaceCh(_, _, _)
\* s.replace(c, r) for a one-character c.
ReplaceCh(s, c, r) ==
    IF s = "" THEN ""
    ELSE (IF Ch(s, 1) = c THEN r ELSE Ch(s, 1)) \o ReplaceCh(Tail(s), c, r)

\* s.count(c) for a one-character c.
CountCh(s, c) == Cardinality({i \in 1..Len(s) : Ch(s, i) = c})

RECURSIVE Join(_, _)
\* sep.join(parts) for a sequence of strings.
Join(sep, parts) ==
    IF parts = <<>> THEN ""
    ELSE IF Len(parts) = 1 THEN parts[1]
    ELSE parts[1] \o sep \o Join(sep, Tail(parts))

RECURSIVE SplitWs(_)
\* str.split(): the maximal runs of non-blank characters, in order.
SplitWs(s) ==
    LET t == LStrip(s, {" "})
    IN IF t = "" THEN <<>>
       ELSE LET n == IF Contains(t, " ") THEN Find(t, " ") - 1 ELSE Len(t)
            IN <<SubSeq(t, 1, n)>> \o SplitWs(SubSeq(t, n + 1, Len(t)))

DigitVal(c) == (CHOOSE i \in 1..10 : Ch("0123456789", i) = c) - 1

RECURSIVE StrToNat(_)
\* The number a string of decimal digits writes ("" is 0).
StrToNat(s) ==
    IF s = "" THEN 0
    ELSE StrToNat(SubSeq(s, 1, Len(s) - 1)) * 10 + DigitVal(Ch(s, Len(s)))

RECURSIVE NatToStr(_)
NatToStr(n) ==
    IF n < 10 THEN Ch("0123456789", n + 1)
    ELSE NatToStr(n \div 10) \o Ch("0123456789", (n % 10) + 1)

RECURSIVE Pow10(_)
Pow10(e) == IF e = 0 THEN 1 ELSE 10 * Pow10(e - 1)

(* --------------------------- Python values ---------------------------- *)

Null == [t |-> "null"]

Str(s) == [t |-> "str", s |-> s]

IntV(n) == [t |-> "int", n |-> n]

Bool(b) == [t |-> "bool", b |-> b]

RECURSIVE Float(_, _)
\* The float m / 10^e, trailing zeros of the fraction dropped so that equal
\* numbers are equal records.
Float(m, e) ==
    IF e > 0 /\ m % 10 = 0 THEN Float(m \div 10, e - 1)
    ELSE [t |-> "float", m |-> m, e |-> e]

Inf(neg) == [t |-> "inf", neg |-> neg]

NaN == [t |-> "nan"]

Map(m) == [t |-> "map", m |-> m]

List(l) == [t |-> "list", l |-> l]

EmptyMap == [k \in {} |-> Null]

\* The mapping {k: v}.
M1(k, v) == k :> v

\* bool(v)
Truthy(v) ==
    CASE v.t = "null" -> FALSE
      [] v.t = "str" -> v.s # ""
      [] v.t = "int" -> v.n # 0
      [] v.t = "bool" -> v.b
      [] v.t = "float" -> v.m # 0
      [] v.t = "map" -> DOMAIN v.m # {}
      [] v.t = "list" -> Len(v.l) > 0
      [] OTHER -> TRUE

\* a or b
PyOr(a, b) == IF Truthy(a) THEN a ELSE b

\* v == 0 (False == 0 and 0.0 == 0 in Python).
IsZero(v) ==
    \/ v.t = "int" /\ v.n = 0
    \/ v.t = "float" /\ v.m = 0
    \/ v.t = "bool" /\ ~v.b

\* dict.get(k) on the function behind a mapping.
Get(m, k) == IF k \in DOMAIN m THEN m[k] ELSE Null

Ok(v) == [ok |-> TRUE, v |-> v]

Err(e) == [ok |-> FALSE, err |-> e]

\* The digits ip before and fp after the point, as a float.
FloatOfDigits(neg, ip, fp) ==
    IF /\ ip \o fp # ""
       /\ \A i \in 1..Len(ip) : IsDigit(Ch(ip, i))
       /\ \A i \in 1..Len(fp) : IsDigit(Ch(fp, i))
    THEN Ok(Float((IF neg THEN -1 ELSE 1) * StrToNat(ip \o fp), Len(fp)))
    ELSE Err("ValueError")

\* The text s after the sign, with its first point at p (0 for none).
FloatOfUnsigned(neg, s, p) ==
    IF Lower(s) \in {"inf", "infinity"} THEN Ok(Inf(neg))
    ELSE IF Lower(s) = "nan" THEN Ok(NaN)
    ELSE FloatOfDigits(neg,
                       IF p = 0 THEN s ELSE SubSeq(s, 1, p - 1),
                       IF p = 0 THEN "" ELSE SubSeq(s, p + 1, Len(s)))

FloatOfSigned(neg, s) == FloatOfUnsigned(neg, s, Find(s, "."))

FloatOfStripped(s1) ==
    FloatOfSigned(s1 # "" /\ Ch(s1, 1) = "-",
                  IF s1 # "" /\ Ch(s1, 1) \in {"+", "-"} THEN Tail(s1) ELSE s1)

\* float(s) for a string: surrounding blanks and a sign are allowed, then
\* inf / infinity / nan in any case, or digits with at most one point and at
\* least one digit.  (Exponent and underscore spellings are not drawn.)
FloatOfStr(s0) == FloatOfStripped(Strip(s0))

\* float(v)
ToFloat(v) ==
    CASE v.t = "int" -> Ok(Float(v.n, 0))
      [] v.t = "bool" -> Ok(Float(IF v.b THEN 1 ELSE 0, 0))
      [] v.t \in {"float", "inf", "nan"} -> Ok(v)
      [] v.t = "str" -> FloatOfStr(v.s)
      [] OTHER -> Err("TypeError")

IntOfSigned(neg, s) ==
    IF IsDigitStr(s) THEN Ok(IntV((IF neg THEN -1 ELSE 1) * StrToNat(s)))
    ELSE Err("ValueError")

IntOfStripped(s1) ==
    IntOfSigned(s1 # "" /\ Ch(s1, 1) = "-",
                IF s1 # "" /\ Ch(s1, 1) \in {"+", "-"} THEN Tail(s1) ELSE s1)

\* int(s) for a string: blanks and a sign allowed, then digits only.
IntOfStr(s0) == IntOfStripped(Strip(s0))

\* int(v): a float is truncated toward zero; int(inf) is an OverflowError
\* and int(nan) a ValueError.
ToInt(v) ==
    CASE v.t = "int" -> Ok(v)
      [] v.t = "bool" -> Ok(IntV(IF v.b THEN 1 ELSE 0))
      [] v.t = "float" ->
            Ok(IntV(IF v.m >= 0 THEN v.m \div Pow10(v.e)
                   ELSE -((-v.m) \div Pow10(v.e))))
      [] v.t = "inf" -> Err("OverflowError")
      [] v.t = "nan" -> Err("ValueError")
      [] v.t = "str" -> IntOfStr(v.s)
      [] OTHER -> Err("TypeError")

IntToStr(n) == IF n < 0 THEN "-" \o NatToStr(-n) ELSE NatToStr(n)

\* The fraction digits of |m| / 10^e, left-padded with zeros to e digits.
FracDigits(m, e) ==
    LET f == NatToStr(m % Pow10(e))
        Zeros[k \in 0..e] == IF k = 0 THEN "" ELSE "0" \o Zeros[k - 1]
    IN Zeros[e - Len(f)] \o f

\* repr(float) for the magnitudes drawn here (no exponent notation).
FloatToStr(v) ==
    LET a == IF v.m < 0 THEN -v.m ELSE v.m
    IN (IF v.m < 0 THEN "-" ELSE "") \o NatToStr(a \div Pow10(v.e)) \o "."
          \o (IF v.e = 0 THEN "0" ELSE FracDigits(a, v.e))

RECURSIVE PyRepr(_)
RECURSIVE ReprItems(_)
RECURSIVE ReprPairs(_)
\* repr(v).  The keys of a mapping are written in the order CHOOSE gives:
\* the mappings this is applied to hold at most one key.
PyRepr(v) ==
    CASE v.t = "null" -> "None"
      [] v.t = "str" -> "'" \o v.s \o "'"
      [] v.t = "int" -> IntToStr(v.n)
      [] v.t = "bool" -> IF v.b THEN "True" ELSE "False"
      [] v.t = "float" -> FloatToStr(v)
      [] v.t = "inf" -> IF v.neg THEN "-inf" ELSE "inf"
      [] v.t = "nan" -> "nan"
      [] v.t = "list" -> "[" \o Join(", ", ReprItems(v.l)) \o "]"
      [] v.t = "map" -> "{" \o Join(", ", ReprPairs(v.m)) \o "}"

ReprItems(l) ==
    IF l = <<>> THEN <<>> ELSE <<PyRepr(Head(l))>> \o ReprItems(Tail(l))

ReprPairs(m) ==
    IF DOMAIN m = {} THEN <<>>
    ELSE LET k == CHOOSE k \in DOMAIN m : TRUE
         IN <<"'" \o k \o "': " \o PyRepr(m[k])>>
               \o ReprPairs([j \in DOMAIN m \ {k} |-> m[j]])

\* str(v): a string is itself, anything else is its repr.
PyStr(v) == IF v.t = "str" THEN v.s ELSE PyRepr(v)

(* -------------------- api/utils.py: the canonicalizer ------------------ *)

\* hash(str): randomised per process, except that hash("") is 0.  The model
\* draws hash_seed once and reads one fixed function of it.
StrHash(s) == IF s = "" THEN 0 ELSE hash_seed * (1000003 + 37 * Len(s))

\* hash(v) of a hashable value.  hash(n) is n for a small int, but -2 for
\* -1; a float equal to an int hashes like it.  For the other floats the
\* model keeps a fixed stand-in value: only its being an integer matters.
PyHash(v) ==
    CASE v.t = "str" -> StrHash(v.s)
      [] v.t = "int" -> IF v.n = -1 THEN -2 ELSE v.n
      [] v.t = "bool" -> IF v.b THEN 1 ELSE 0
      [] v.t = "float" ->
            IF v.e = 0 THEN (IF v.m = -1 THEN -2 ELSE v.m) ELSE 846978 + v.m
      [] v.t = "inf" -> IF v.neg THEN -314159 ELSE 314159
      [] v.t = "nan" -> 0
      [] v.t = "null" -> 474054

Hashable(v) == v.t \notin {"list", "map"}

RECURSIVE TruthyStrs(_)
\* [str(item) for item in value if item]
TruthyStrs(l) ==
    IF l = <<>> THEN <<>>
    ELSE (IF Truthy(Head(l)) THEN <<PyStr(Head(l))>> ELSE <<>>)
            \o TruthyStrs(Tail(l))

\* _ensure_list_of_strings(value): a sequence of strings.
EnsureListOfStrings(value) ==
    CASE value.t = "null" -> <<>>
      [] value.t = "str" -> <<value.s>>
      [] value.t = "list" -> TruthyStrs(value.l)
      [] OTHER -> <<>>

\* value not in (None, "", [], {})
NotInEmpties(value) ==
    value \notin {Null, Str(""), List(<<>>), Map(EmptyMap)}

RECURSIVE FirstNonEmpty(_)
\* _first_non_empty(*values)
FirstNonEmpty(values) ==
    IF values = <<>> THEN Null
    ELSE LET value == Head(values)
         IN IF value.t = "str" /\ Strip(value.s) # "" THEN Str(Strip(value.s))
            ELSE IF NotInEmpties(value) THEN value
            ELSE FirstNonEmpty(Tail(values))

\* re.sub(r'[^\d,.]', '', formatted_price), then the separator rule, then
\* float(): the parsed price, or an error when the text is no number.
ParseFormatted(formatted_price) ==
    LET cleaned == Filter(formatted_price, Digits \cup {",", "."})
        fixed ==
            IF Contains(cleaned, ".") /\ Contains(cleaned, ",")
            THEN ReplaceCh(ReplaceCh(cleaned, ".", ""), ",", ".")
            ELSE IF CountCh(cleaned, ".") > 1 THEN ReplaceCh(cleaned, ".", "")
            ELSE cleaned
    IN FloatOfStr(fixed)

\* Lines 52-62: the nested value when it is neither None nor zero; else
\* the formatted text's number when the text parses; else the nested value.
FormattedFallback(price_value, formatted_price) ==
    IF price_value = Null \/ IsZero(price_value)
    THEN IF Truthy(formatted_price) /\ formatted_price.t = "str"
         THEN IF ParseFormatted(formatted_price.s).ok
              THEN ParseFormatted(formatted_price.s).v
              ELSE price_value
         ELSE price_value
    ELSE price_value

\* Lines 42-62 for the price block.
PriceOfBlock(price_block) ==
    IF price_block.t = "map"
    THEN FormattedFallback(FirstNonEmpty(<<Get(price_block.m, "parsed"),
                                           Get(price_block.m, "amount"),
                                           Get(price_block.m, "dataPrice"),
                                           Get(price_block.m, "value")>>),
                           Get(price_block.m, "formatted"))
    ELSE price_block

\* Lines 41-62: price_value before the final float().
PriceValue(raw0) ==
    PriceOfBlock(PyOr(PyOr(Get(raw0, "price"), Get(raw0, "priceInfo")),
                      Map(EmptyMap)))

\* Lines 64-67: float(price_value), 0.0 for None, TypeError and ValueError.
\* Any other error of float() leaves the function.
FloatOrZero(price_value, f) ==
    IF price_value = Null THEN Ok(Float(0, 0))
    ELSE IF f.ok THEN f
    ELSE IF f.err \in {"TypeError", "ValueError"} THEN Ok(Float(0, 0))
    ELSE f

PriceOf(price_value) == FloatOrZero(price_value, ToFloat(price_value))

\* Lines 41-67: the canonical price.
PriceFloat(raw0) == PriceOf(PriceValue(raw0))

RECURSIVE StrippedTruthy(_)
\* [str(part).strip() for part in parts if part]
StrippedTruthy(parts) ==
    IF parts = <<>> THEN <<>>
    ELSE (IF Truthy(Head(parts)) THEN <<Strip(PyStr(Head(parts)))>> ELSE <<>>)
            \o StrippedTruthy(Tail(parts))

\* Lines 70-89: location_str.
LocationStr(raw0) ==
    LET location_block ==
            PyOr(PyOr(PyOr(Get(raw0, "location"), Get(raw0, "locationInfo")),
                      Get(raw0, "address")),
                 Map(EmptyMap))
    IN IF location_block.t = "map"
       THEN Join(", ",
                 StrippedTruthy(<<Get(location_block.m, "city"),
                                  PyOr(Get(location_block.m, "state"),
                                       Get(location_block.m, "region")),
                                  Get(location_block.m, "country")>>))
       ELSE PyStr(location_block)

\* a or b or c or d on lists
FirstFilled(a, b, c, d) ==
    IF a # <<>> THEN a ELSE IF b # <<>> THEN b ELSE IF c # <<>> THEN c ELSE d

\* Lines 99-101: the primary image when no list gave a candidate.
WithPrimary(first, primary_image) ==
    IF first = <<>> /\ Truthy(primary_image)
    THEN EnsureListOfStrings(primary_image)
    ELSE first

\* Lines 92-101: image_candidates, a sequence of strings.
ImageCandidates(raw0) ==
    WithPrimary(FirstFilled(EnsureListOfStrings(Get(raw0, "photos")),
                            EnsureListOfStrings(Get(raw0, "imageUrls")),
                            EnsureListOfStrings(Get(raw0, "images")),
                            EnsureListOfStrings(Get(raw0, "gallery"))),
                PyOr(Get(raw0, "primaryImageUrl"), Get(raw0, "image")))

PlaceholderImage == "https://via.placeholder.com/400x250?text=Image+Not+Available"

\* image_candidates[:3] if image_candidates else [placeholder]
FirstThree(image_candidates) ==
    IF image_candidates # <<>>
    THEN SubSeq(image_candidates, 1,
                IF Len(image_candidates) < 3 THEN Len(image_candidates) ELSE 3)
    ELSE <<PlaceholderImage>>

\* Lines 135-137: the canonical images.
Images(raw0) == FirstThree(ImageCandidates(raw0))

\* Lines 104-109: description.
Description(raw0) ==
    PyOr(FirstNonEmpty(<<Get(raw0, "description"),
                         Str(Join(" ", EnsureListOfStrings(Get(raw0, "features")))),
                         Get(raw0, "summary"),
                         Get(raw0, "propertyType")>>),
         Str("Description not provided."))

\* Lines 117-121: int(rooms_value), 0 for None, TypeError and ValueError;
\* any other error of int() leaves the function.
IntOrZero(rooms_value, i) ==
    IF rooms_value = Null THEN Ok(IntV(0))
    ELSE IF i.ok THEN i
    ELSE IF i.err \in {"TypeError", "ValueError"} THEN Ok(IntV(0))
    ELSE i

RoomsOf(rooms_value) == IntOrZero(rooms_value, ToInt(rooms_value))

\* Lines 112-121: the canonical rooms.
Rooms(raw0) ==
    RoomsOf(FirstNonEmpty(<<Get(raw0, "rooms"), Get(raw0, "bedrooms"),
                            Get(raw0, "bedroomCount"), Get(raw0, "roomCount")>>))

\* Lines 124-128: the three arguments are evaluated before _first_non_empty
\* is called.  (raw.get("dataAttributes") or {}).get("id") is an
\* AttributeError when dataAttributes is truthy and no mapping;
\* hash() is a TypeError on a list or a mapping.
ListingId(provider0, raw0) ==
    LET attrs == PyOr(Get(raw0, "dataAttributes"), Map(EmptyMap))
        hashed == PyOr(PyOr(Get(raw0, "listingUrl"), Get(raw0, "url")),
                       Str(provider0))
    IN IF attrs.t # "map" THEN Err("AttributeError")
       ELSE IF ~Hashable(hashed) THEN Err("TypeError")
       ELSE Ok(FirstNonEmpty(<<Get(raw0, "id"),
                               Get(attrs.m, "id"),
                               IntV(PyHash(hashed) % 1000000)>>))

RECURSIVE StrList(_)
StrList(ss) == IF ss = <<>> THEN <<>> ELSE <<Str(Head(ss))>> \o StrList(Tail(ss))

\* Lines 123-138: the returned mapping, once price, rooms and id are there.
Listing(raw0, price, rooms, id, location_str) ==
    [k \in {"id", "url", "title", "desc", "price", "rooms", "location",
            "images"} |->
       CASE k = "id" -> id
         [] k = "url" -> FirstNonEmpty(<<Get(raw0, "listingUrl"), Get(raw0, "url")>>)
         [] k = "title" ->
              FirstNonEmpty(<<Get(raw0, "title"), Get(raw0, "name"),
                              Str("Untitled Listing")>>)
         [] k = "desc" -> Description(raw0)
         [] k = "price" -> price
         [] k = "rooms" -> rooms
         [] k = "location" ->
              Str(IF location_str # "" THEN location_str
                  ELSE "Location not provided")
         [] k = "images" -> List(StrList(Images(raw0)))]

\* The function's outcome from the outcomes of its three steps that can
\* raise, in the order the code takes them.
ListingOrError(raw0, price, rooms, id) ==
    IF ~price.ok THEN price
    ELSE IF ~rooms.ok THEN rooms
    ELSE IF ~id.ok THEN id
    ELSE Ok(Listing(raw0, price.v, rooms.v, id.v, LocationStr(raw0)))

\* normalize_scraped_listing(provider, raw): [ok |-> TRUE, v |-> the returned
\* mapping] or [ok |-> FALSE, err |-> the exception that leaves the function].
NormalizeScrapedListing(provider0, raw0) ==
    IF DOMAIN raw0 = {} THEN Ok(EmptyMap)
    ELSE ListingOrError(raw0, PriceFloat(raw0), Rooms(raw0),
                        ListingId(provider0, raw0))

(* --------------------------- urllib.parse ------------------------------ *)

SchemeChars ==
    {Ch(LowerAlpha, i) : i \in 1..26} \cup {Ch(UpperAlpha, i) : i \in 1..26}
        \cup Digits \cup {"+", "-", "."}

\* Index of the first character of s at or after position from that is in
\* the set cs, Len(s) + 1 when there is none.
FirstOf(s, cs, from) ==
    IF \E i \in from..Len(s) : Ch(s, i) \in cs
    THEN CHOOSE i \in from..Len(s) :
            Ch(s, i) \in cs /\ \A j \in from..(i - 1) : Ch(s, j) \notin cs
    ELSE Len(s) + 1

\* The last step of urlsplit: the text before the first "?" (at q, 0 for
\* none) is the path, the text after it the query.
SplitQuery(scheme, netloc, rest, fragment, q) ==
    [scheme |-> scheme, netloc |-> netloc,
     path |-> IF q = 0 THEN rest ELSE SubSeq(rest, 1, q - 1),
     query |-> IF q = 0 THEN "" ELSE SubSeq(rest, q + 1, Len(rest)),
     fragment |-> fragment]

\* The text after the first "#" (at h, 0 for none) is the fragment.
SplitFragment(scheme, netloc, rest, h) ==
    SplitQuery(scheme, netloc,
               IF h = 0 THEN rest ELSE SubSeq(rest, 1, h - 1),
               IF h = 0 THEN "" ELSE SubSeq(rest, h + 1, Len(rest)),
               IF h = 0 THEN Find(rest, "?")
               ELSE Find(SubSeq(rest, 1, h - 1), "?"))

\* After "//" the netloc runs up to the first of "/", "?", "#" (at delim).
SplitNetloc(scheme, rest, delim) ==
    SplitFragment(scheme, SubSeq(rest, 3, delim - 1),
                  SubSeq(rest, delim, Len(rest)),
                  Find(SubSeq(rest, delim, Len(rest)), "#"))

\* What follows the scheme.
SplitRest(scheme, rest) ==
    IF StartsWith(rest, "//")
    THEN SplitNetloc(scheme, rest, FirstOf(rest, {"/", "?", "#"}, 3))
    ELSE SplitFragment(scheme, "", rest, Find(rest, "#"))

\* The text before the first ":" (at i, 0 for none) is the scheme when it
\* starts with a letter and holds scheme characters only.
SplitScheme(url, i) ==
    IF /\ i > 1
       /\ IsAlphaCh(Ch(url, 1))
       /\ \A j \in 1..(i - 1) : Ch(url, j) \in SchemeChars
    THEN SplitRest(Lower(SubSeq(url, 1, i - 1)), SubSeq(url, i + 1, Len(url)))
    ELSE SplitRest("", url)

\* urlparse(url): scheme, netloc, path, query, fragment.  (No ';' parameter
\* and no bracketed host is drawn, so params is always empty.)
UrlParse(url) == SplitScheme(url, Find(url, ":"))

\* urlunparse((scheme, netloc, path, "", query, fragment)) for a non-empty
\* scheme that uses a netloc (http, https).
UrlUnparse(scheme, netloc, path, query, fragment) ==
    LET p1 == IF path # "" /\ ~StartsWith(path, "/") THEN "/" \o path ELSE path
    IN scheme \o ":" \o "//" \o netloc \o p1
          \o (IF query # "" THEN "?" \o query ELSE "")
          \o (IF fragment # "" THEN "#" \o fragment ELSE "")

(* ----------------------- scrapers/idealista.py -------------------------- *)

RECURSIVE CollapseWww(_)
\* while netloc.startswith("www.www."): netloc = netloc.replace("www.", "", 1)
CollapseWww(netloc) ==
    IF StartsWith(netloc, "www.www.")
    THEN CollapseWww(SubSeq(netloc, 5, Len(netloc)))
    ELSE netloc

\* Lines 190-193: the netloc with a run of leading "www." collapsed.
IdealistaNetloc(netloc0) ==
    IF StartsWith(netloc0, "www.www.")
    THEN IF StartsWith(CollapseWww(netloc0), "www.") THEN CollapseWww(netloc0)
         ELSE "www." \o CollapseWww(netloc0)
    ELSE netloc0

\* Lines 203-206: the path with the language prefix.
IdealistaPath(netloc, path0) ==
    IF /\ EndsWith(netloc, "idealista.com")
       /\ StartsWith(Lower(path0), "/inmueble/")
       /\ ~StartsWith(Lower(path0), "/en/inmueble/")
    THEN "/en" \o path0
    ELSE path0

\* Lines 195-219 for the netloc and the path settled in lines 195-201.
IdealistaUnparse(parsed, netloc, path0) ==
    Str(RStrip(UrlUnparse(IF parsed.scheme # "" THEN parsed.scheme ELSE "https",
                          netloc, IdealistaPath(netloc, path0), parsed.query,
                          parsed.fragment),
               {"?", "&"}))

\* Lines 195-201: a URL with no netloc gives its path as the netloc.
IdealistaSwap(parsed, netloc1) ==
    IF netloc1 = "" /\ parsed.path # ""
    THEN IdealistaUnparse(parsed, parsed.path, "")
    ELSE IdealistaUnparse(parsed, netloc1, parsed.path)

IdealistaRebuild(parsed) ==
    IdealistaSwap(parsed, IdealistaNetloc(Lower(parsed.netloc)))

\* Line 187: what is handed to urlparse.
IdealistaCandidate(candidate) ==
    IF Contains(candidate, "//") THEN candidate
    ELSE "https://" \o LStrip(candidate, {"/"})

\* IdealistaScraper._normalize_url(url) for a string url: the normalised URL
\* as a value ("" stays "", a blank string gives None).
IdealistaNormalizeUrl(url) ==
    IF url = "" THEN Str("")
    ELSE IF Strip(url) = "" THEN Null
    ELSE IdealistaRebuild(UrlParse(IdealistaCandidate(Strip(url))))

\* any(domain in (normalized or "") for domain in [...])
HasIdealistaDomain(normalized0) ==
    \E domain \in {"idealista.com", "idealista.pt", "idealista.it"} :
       Contains(IF Truthy(normalized0) THEN normalized0.s ELSE "", domain)

\* IdealistaScraper.validate_url(url)
IdealistaValidateUrl(url) == HasIdealistaDomain(IdealistaNormalizeUrl(url))

\* Lines 109-113: float(num_filtered), None when it is empty or no number.
AmountOf(num_filtered, f) == IF num_filtered # "" /\ f.ok THEN f.v ELSE Null

AmountOfDigits(num_filtered) == AmountOf(num_filtered, FloatOfStr(num_filtered))

\* Lines 102-113 for the tokens and whether the last one is the currency.
AmountAndCurrency(parts, isCurrency) ==
    [amount |->
        AmountOfDigits(
           Filter(IF isCurrency THEN Join("", SubSeq(parts, 1, Len(parts) - 1))
                  ELSE Join("", parts),
                  Digits \cup {"."})),
     currency |-> IF isCurrency THEN Str(parts[Len(parts)]) ELSE Null]

\* Line 103: the last token passes for a currency.
IsCurrency(potential_currency) ==
    \/ IsAlpha(ReplaceCh(potential_currency, ".", ""))
    \/ Len(potential_currency) <= 3

\* Lines 101-113 for the tokens of the price text.
TokensPrice(parts) ==
    IF parts = <<>> THEN [amount |-> Null, currency |-> Null]
    ELSE AmountAndCurrency(parts, IsCurrency(parts[Len(parts)]))

\* Lines 96-113 of _process_result: the price string's amount and currency.
\* price_raw is the truthy value of raw["price"]; anything but a string has
\* no replace() and raises.
TokenizePrice(price_raw) ==
    IF price_raw.t # "str" THEN Err("AttributeError")
    ELSE Ok(TokensPrice(SplitWs(ReplaceCh(price_raw.s, ",", ""))))

\* Lines 96-113 for raw.get("price") or ""
PriceTokens(price_raw) ==
    IF Truthy(price_raw) THEN TokenizePrice(price_raw)
    ELSE Ok([amount |-> Null, currency |-> Null])

RECURSIVE GalleryUrls(_)
\* [img.get("url") for img in gallery if isinstance(img, dict) and img.get("url")]
GalleryUrls(l) ==
    IF l = <<>> THEN <<>>
    ELSE (IF Head(l).t = "map" /\ Truthy(Get(Head(l).m, "url"))
          THEN <<Get(Head(l).m, "url")>> ELSE <<>>) \o GalleryUrls(Tail(l))

\* Lines 115-176 of _process_result, with the outcome tok of lines 96-113.
IdealistaProcessed0(result, tok) ==
    LET price_raw == PyOr(Get(result, "price"), Str(""))
        location_value == Get(result, "location")
        location ==
            IF location_value.t = "map"
            THEN M1("address", Get(location_value.m, "address"))
                    @@ M1("city", Get(location_value.m, "city"))
                    @@ M1("state", Get(location_value.m, "region"))
                    @@ M1("country", Get(location_value.m, "country"))
                    @@ M1("coordinates", Get(location_value.m, "coordinates"))
            ELSE M1("address", Get(result, "address"))
                    @@ M1("city", IF location_value.t = "str" THEN location_value
                                  ELSE Get(result, "city"))
                    @@ M1("state", Get(result, "province"))
                    @@ M1("country", Get(result, "country"))
                    @@ M1("coordinates", Get(result, "coordinates"))
        property_specs == PyOr(Get(result, "propertySpecs"), Map(EmptyMap))
        living_area_value ==
            PyOr(Get(property_specs.m, "constructedArea"),
                 Get(property_specs.m, "livingArea"))
        characteristics == Get(result, "characteristics")
        building == Get(result, "building")
        features ==
            (IF characteristics.t = "list" THEN characteristics.l ELSE <<>>)
               \o (IF building.t = "list" THEN building.l ELSE <<>>)
        gallery == PyOr(Get(result, "gallery"), List(<<>>))
        \* Iterating a string or a mapping yields strings: no dict among them.
        gallery_urls == IF gallery.t = "list" THEN GalleryUrls(gallery.l) ELSE <<>>
        image_urls ==
            IF gallery_urls = <<>> /\ Truthy(Get(result, "MainImage"))
            THEN <<Get(result, "MainImage")>>
            ELSE gallery_urls
        contact_info == PyOr(Get(result, "contactInfo"), Map(EmptyMap))
        office ==
            M1("name", PyOr(Get(contact_info.m, "professionalName"),
                            Get(contact_info.m, "name")))
               @@ M1("phone", Get(contact_info.m, "phones"))
               @@ M1("email", Get(contact_info.m, "email"))
               @@ M1("logo", Get(contact_info.m, "logo"))
               @@ M1("url", Get(contact_info.m, "agencyWebsite"))
    IN IF ~tok.ok THEN tok
       ELSE IF property_specs.t # "map" THEN Err("AttributeError")
       ELSE IF gallery.t \notin {"list", "str", "map"} THEN Err("TypeError")
       ELSE IF contact_info.t # "map" THEN Err("AttributeError")
       ELSE Ok(M1("source", Str("idealista"))
               @@ M1("listingUrl",
                     PyOr(PyOr(Get(result, "Url"), Get(result, "listingUrl")),
                          Get(result, "url")))
               @@ M1("primaryImageUrl",
                     PyOr(Get(result, "MainImage"),
                          IF image_urls # <<>> THEN image_urls[1] ELSE Null))
               @@ M1("imageUrls", List(image_urls))
               @@ M1("featureList", List(features))
               @@ M1("locationInfo", Map(location))
               @@ M1("livingAreaInfo",
                     IF Truthy(living_area_value)
                     THEN Map(M1("value", living_area_value) @@ M1("unit", Str("m²")))
                     ELSE Map(M1("value", Null) @@ M1("unit", Str("m²"))))
               @@ M1("priceInfo",
                     Map(M1("amount", tok.v.amount)
                           @@ M1("currency", tok.v.currency)
                           @@ M1("formatted",
                                 PyOr(price_raw, Str("Price on request")))))
               @@ M1("bedroomCount", Get(property_specs.m, "rooms"))
               @@ M1("bathroomCount", Get(property_specs.m, "bathrooms"))
               @@ M1("office", Map(office))
               @@ result)

\* IdealistaScraper._process_result(result) for a mapping result: the
\* processed listing, or the exception the field extraction raises.
IdealistaProcessResult(result) ==
    IdealistaProcessed0(result,
                        PriceTokens(PyOr(Get(result, "price"), Str(""))))

(* ---------------------- scrapers/immobiliare.py ------------------------- *)

\* ImmobiliareScraper.validate_url(url)
ImmobiliareValidateUrl(url) == Contains(url, "immobiliare.it")

RECURSIVE ReplaceSub(_, _, _)
\* s.replace(sub, rep) for a non-empty sub.
ReplaceSub(s, sub, rep) ==
    LET i == Find(s, sub)
    IN IF i = 0 THEN s
       ELSE SubSeq(s, 1, i - 1) \o rep
               \o ReplaceSub(SubSeq(s, i + Len(sub), Len(s)), sub, rep)

\* ImmobiliareScraper._normalize_url(url) for a string url.
ImmobiliareNormalizeUrl(url) ==
    RStrip(ReplaceSub(Strip(url), "immobiliare.it/en/", "immobiliare.it/"),
           {"?", "&"})

\* d.get(k, {}) on the function behind a mapping.
GetOrEmpty(m, k) == IF k \in DOMAIN m THEN m[k] ELSE Map(EmptyMap)

\* The function behind v when v is a mapping.
Fn(v) == IF v.t = "map" THEN v.m ELSE EmptyMap

IsNumber(v) == v.t \in {"int", "float", "bool", "inf", "nan"}

RECURSIVE AppendNew(_, _)
\* Append each element of xs that is not yet in acc, in order.
AppendNew(acc, xs) ==
    IF xs = <<>> THEN acc
    ELSE AppendNew(IF \E i \in 1..Len(acc) : acc[i] = Head(xs) THEN acc
                   ELSE Append(acc, Head(xs)),
                   Tail(xs))

\* The values one element of a media array adds (_collect_media_urls).
MediaUrlsOf(value) ==
    IF value.t = "map"
    THEN LET pick(k) == IF Truthy(Get(value.m, k)) THEN <<Get(value.m, k)>>
                        ELSE <<>>
         IN pick("url") \o pick("src") \o pick("hd") \o pick("sd")
    ELSE IF value.t = "str" THEN <<value>>
    ELSE <<>>

RECURSIVE CollectMediaUrls(_, _)
CollectMediaUrls(acc, values) ==
    IF values = <<>> THEN acc
    ELSE CollectMediaUrls(AppendNew(acc, MediaUrlsOf(Head(values))), Tail(values))

\* _collect_media_urls(values) onto image_urls: only a list adds anything.
CollectMedia(acc, values) ==
    IF values.t = "list" THEN CollectMediaUrls(acc, values.l) ELSE acc

RECURSIVE GroupThousands(_)
\* The digits of n >= 0 in groups of three joined by ".".
GroupThousands(n) ==
    IF n < 1000 THEN NatToStr(n)
    ELSE GroupThousands(n \div 1000) \o "."
            \o FracDigits(n % 1000, 3)

\* round(m / 10^e) to the nearest integer, ties to even, for m >= 0.
RoundHalfEven(m, e) ==
    LET q == m \div Pow10(e)
        r == m % Pow10(e)
    IN IF 2 * r > Pow10(e) \/ (2 * r = Pow10(e) /\ q % 2 = 1) THEN q + 1 ELSE q

\* f"{price_node:,.0f}".replace(",", ".") for a number.
FormatThousands(v) ==
    CASE v.t = "int" ->
            (IF v.n < 0 THEN "-" ELSE "")
               \o GroupThousands(IF v.n < 0 THEN -v.n ELSE v.n)
      [] v.t = "bool" -> IF v.b THEN "1" ELSE "0"
      [] v.t = "float" ->
            (IF v.m < 0 THEN "-" ELSE "")
               \o GroupThousands(RoundHalfEven(IF v.m < 0 THEN -v.m ELSE v.m, v.e))
      [] v.t = "inf" -> IF v.neg THEN "-inf" ELSE "inf"
      [] v.t = "nan" -> "nan"

FloatOrNone(f) == IF f.ok THEN f.v ELSE Null

\* _safe_float(value)
SafeFloat(value) == FloatOrNone(ToFloat(value))

\* _safe_int(value): int() of a number is not guarded (inf and nan raise);
\* of a string, the digits in it.
IntOfDigits(digits) == IF digits # "" THEN IntV(StrToNat(digits)) ELSE Null

SafeInt(value) ==
    IF IsNumber(value) THEN ToInt(value)
    ELSE IF value.t = "str" THEN Ok(IntOfDigits(Filter(value.s, Digits)))
    ELSE Ok(Null)

RECURSIVE LabelledValues(_)
\* f"{label}: {value}" for the mappings of a list that hold both.
LabelledValues(l) ==
    IF l = <<>> THEN <<>>
    ELSE (IF /\ Head(l).t = "map"
             /\ Truthy(Get(Head(l).m, "label"))
             /\ Truthy(Get(Head(l).m, "value"))
          THEN <<PyStr(Get(Head(l).m, "label")) \o ": "
                    \o PyStr(Get(Head(l).m, "value"))>>
          ELSE <<>>) \o LabelledValues(Tail(l))

RECURSIVE StrippedNonEmpty(_)
StrippedNonEmpty(ss) ==
    IF ss = <<>> THEN <<>>
    ELSE (IF Strip(Head(ss)) # "" THEN <<Strip(Head(ss))>> ELSE <<>>)
            \o StrippedNonEmpty(Tail(ss))

\* ImmobiliareScraper._process_result(result) for a mapping result: the
\* processed listing, or an error when the extraction raises (scrape()
\* catches every exception alike, so the error's type is not kept).
ImmobiliareProcessResult(result) ==
    LET basic_info == PyOr(Get(result, "basicInfo"), Map(EmptyMap))
        bi == Fn(basic_info)
        hasUrl == Truthy(PyOr(PyOr(Get(result, "url"), Get(result, "detailUrl")),
                              Get(result, "canonicalUrl")))
        bi_analytics == GetOrEmpty(bi, "analytics")
        listing_url ==
            PyOr(PyOr(PyOr(Get(result, "url"), Get(result, "detailUrl")),
                      Get(result, "canonicalUrl")),
                 Get(Fn(bi_analytics), "shareUrl"))
        media == PyOr(PyOr(Get(result, "media"), Get(bi, "media")), Map(EmptyMap))
        urls0 ==
            CollectMedia(
              CollectMedia(
                CollectMedia(
                  CollectMedia(<<>>, Get(Fn(media), "imgs_hd")),
                  Get(Fn(media), "imgs_b")),
                Get(Fn(media), "images")),
              Get(Fn(media), "gallery"))
        placeholder == Get(Fn(media), "placeholder")
        image_urls ==
            IF Truthy(placeholder) THEN AppendNew(urls0, <<placeholder>>) ELSE urls0
        price12 == PyOr(Get(result, "price"), Get(bi, "price"))
        infoCosti == IF "infoCosti" \in DOMAIN result THEN result["infoCosti"]
                     ELSE List(<<Map(EmptyMap)>>)
        infoCostiOk ==
            \/ infoCosti.t = "list" /\ infoCosti.l # <<>>
            \/ infoCosti.t = "str" /\ infoCosti.s # ""
        price_node ==
            IF Truthy(price12) THEN price12
            ELSE IF infoCosti.t = "list" THEN infoCosti.l[1]
            ELSE Str(Ch(infoCosti.s, 1))
        pn == Fn(price_node)
        raw_amount ==
            PyOr(PyOr(Get(pn, "amount"), Get(pn, "raw")), Get(pn, "value"))
        formatted_price ==
            IF price_node.t = "map"
            THEN PyOr(PyOr(PyOr(Get(pn, "formatted"), Get(pn, "value")),
                           Get(pn, "text")),
                      Get(pn, "label"))
            ELSE IF IsNumber(price_node)
                 THEN Str("€ " \o FormatThousands(price_node))
            ELSE IF price_node.t = "str" THEN price_node
            ELSE Null
        amount ==
            IF price_node.t = "map"
            THEN IF IsNumber(raw_amount) THEN raw_amount
                 ELSE IF /\ raw_amount.t = "str"
                         /\ IsDigitStr(
                              LET i == Find(raw_amount.s, ".")
                              IN IF i = 0 THEN raw_amount.s
                                 ELSE SubSeq(raw_amount.s, 1, i - 1)
                                         \o SubSeq(raw_amount.s, i + 1,
                                                   Len(raw_amount.s)))
                      THEN SafeFloat(raw_amount)
                 ELSE Null
            ELSE IF IsNumber(price_node) THEN price_node
            ELSE Null
        currency ==
            IF price_node.t = "map" THEN PyOr(Get(pn, "currency"), Str("€"))
            ELSE IF IsNumber(price_node) THEN Str("€")
            ELSE Null
        analytics ==
            PyOr(PyOr(Get(result, "analytics"), Get(bi, "analytics")),
                 Map(EmptyMap))
        geography == PyOr(Get(bi, "geography"), Map(EmptyMap))
        geo == Fn(geography)
        municipality == GetOrEmpty(geo, "municipality")
        province == GetOrEmpty(geo, "province")
        geolocation == GetOrEmpty(geo, "geolocation")
        needMunicipality ==
            ~Truthy(Get(result, "c")) \/ ~Truthy(Get(Fn(analytics), "country"))
        needProvince == ~Truthy(Get(result, "region"))
        topology == PyOr(Get(bi, "topology"), Map(EmptyMap))
        rooms_source ==
            PyOr(PyOr(PyOr(Get(Fn(topology), "rooms"), Get(bi, "rooms")),
                      Get(result, "rooms")),
                 Get(result, "s"))
        bathrooms_source ==
            PyOr(PyOr(Get(Fn(topology), "bathrooms"), Get(result, "bathrooms")),
                 Get(result, "bagni"))
        otherFeatures == Get(Fn(analytics), "otherFeatures")
        datiPrincipali == Get(result, "datiPrincipali")
        infoCostiList == Get(result, "infoCosti")
        feature_list ==
            (IF otherFeatures.t = "list" THEN TruthyStrs(otherFeatures.l) ELSE <<>>)
               \o (IF datiPrincipali.t = "list"
                   THEN LabelledValues(datiPrincipali.l) ELSE <<>>)
               \o (IF infoCostiList.t = "list"
                   THEN LabelledValues(infoCostiList.l) ELSE <<>>)
        agency_detail ==
            PyOr(PyOr(Get(result, "agencyDetail"), Get(bi, "contacts")),
                 Map(EmptyMap))
        ad == Fn(agency_detail)
        phones == PyOr(Get(ad, "phones"), List(<<>>))
        phone_value ==
            IF phones.t = "list" /\ phones.l # <<>> /\ phones.l[1].t = "map"
            THEN PyOr(Get(phones.l[1].m, "num"), Get(phones.l[1].m, "value"))
            ELSE PyOr(Get(ad, "telefono1"), Get(ad, "telefono"))
        office ==
            M1("name", PyOr(PyOr(Get(ad, "agencyName"), Get(ad, "nome")),
                            Get(ad, "name")))
               @@ M1("phone", phone_value)
               @@ M1("email", Get(ad, "email"))
               @@ M1("logo", PyOr(Get(ad, "lag"), Get(ad, "logo")))
               @@ M1("url", PyOr(PyOr(Get(ad, "web"), Get(ad, "website")),
                                 Get(ad, "agencyUrl")))
        amenities == AppendNew(<<>>, StrippedNonEmpty(feature_list))
        metaIsMap == Get(bi, "meta").t = "map"
        raw_meta == GetOrEmpty(result, "meta")
        title0 ==
            IF metaIsMap
            THEN PyOr(Get(Fn(raw_meta), "title"), Get(Get(bi, "meta").m, "title"))
            ELSE Null
        title == IF Truthy(title0) THEN title0
                 ELSE PyOr(Get(result, "title"), Get(result, "t"))
        description == PyOr(Get(result, "desc"), Get(bi, "description"))
        rooms == SafeInt(rooms_source)
        bathrooms == SafeInt(bathrooms_source)
        raises ==
            \/ basic_info.t # "map"
            \/ ~hasUrl /\ bi_analytics.t # "map"
            \/ media.t # "map"
            \/ ~Truthy(price12) /\ ~infoCostiOk
            \/ analytics.t # "map"
            \/ geography.t # "map"
            \/ needMunicipality /\ municipality.t # "map"
            \/ needProvince /\ province.t # "map"
            \/ geolocation.t # "map"
            \/ topology.t # "map"
            \/ agency_detail.t # "map"
            \/ metaIsMap /\ raw_meta.t # "map"
            \/ ~rooms.ok
            \/ ~bathrooms.ok
    IN IF Get(result, "dataType") = Str("agency")
       THEN Ok(M1("source", Str("immobiliare"))
               @@ result
               @@ M1("listingUrl", Get(result, "url")))
       ELSE IF raises THEN Err("Exception")
       ELSE Ok(M1("title", title)
               @@ M1("description", description)
               @@ M1("price",
                     Map(M1("formatted", formatted_price)
                           @@ M1("amount", amount)
                           @@ M1("currency", currency)))
               @@ M1("rooms", rooms.v)
               @@ M1("bathrooms", bathrooms.v)
               @@ M1("amenities", List(StrList(amenities)))
               @@ M1("location",
                     Map(M1("address",
                            PyOr(Get(result, "addr"), Get(geo, "street")))
                           @@ M1("city",
                                 PyOr(Get(result, "c"),
                                      Get(Fn(municipality), "name")))
                           @@ M1("state",
                                 PyOr(Get(result, "region"),
                                      Get(Fn(province), "name")))
                           @@ M1("country",
                                 PyOr(Get(Fn(analytics), "country"),
                                      Get(Fn(municipality), "country")))
                           @@ M1("coordinates",
                                 Map(M1("lat",
                                        SafeFloat(PyOr(Get(Fn(geolocation), "latitude"),
                                                       Get(result, "lt"))))
                                       @@ M1("lng",
                                             SafeFloat(PyOr(Get(Fn(geolocation), "longitude"),
                                                            Get(result, "ln"))))))
                           @@ M1("listingUrl", listing_url)))
               @@ M1("photos", List(image_urls)))

(* --------------------- scrapers/james_edition.py ------------------------ *)

\* validate_url without the test of the path.
AcceptsAnyPath(parsed) ==
    /\ parsed.scheme # ""
    /\ parsed.netloc # ""
    /\ EndsWith(parsed.netloc, "jamesedition.com")

\* Lines 26-33 of validate_url for the parsed URL
JamesEditionAccepts(parsed) ==
    /\ parsed.scheme # ""
    /\ parsed.netloc # ""
    /\ EndsWith(parsed.netloc, "jamesedition.com")
    /\ \/ StartsWith(Lower(parsed.path), "/real_estate/")
       \/ StartsWith(Lower(parsed.path), "/real-estate/")

\* JamesEditionScraper.validate_url(url)
JamesEditionValidateUrl(url) == JamesEditionAccepts(UrlParse(url))

(* ------------------------------- HTTP ----------------------------------- *)

\* What requests.post / requests.get comes back with: a response with a
\* status code and a body, or a transport failure (a RequestException).
\* The body is the JSON value of the text, or NotJson.
NotJson == [t |-> "notjson"]

Http(status_code, body) ==
    [kind |-> "http", status_code |-> status_code, body |-> body]

NetError == [kind |-> "error"]

\* response.raise_for_status() raises
RaisesForStatus(resp) == resp.status_code >= 400 /\ resp.status_code < 600

\* value[0]
Item0(value) ==
    CASE value.t = "list" ->
            IF value.l # <<>> THEN Ok(value.l[1]) ELSE Err("IndexError")
      [] value.t = "str" ->
            IF value.s # "" THEN Ok(Str(Ch(value.s, 1))) ELSE Err("IndexError")
      [] value.t = "map" -> Err("KeyError")
      [] OTHER -> Err("TypeError")

RECURSIVE PairsToMap(_)
PairsToMap(l) ==
    IF l = <<>> THEN EmptyMap
    ELSE PairsToMap(Tail(l)) @@ M1(Head(l).l[1].s, Head(l).l[2])

\* dict(value): of a mapping, a copy; of a list of [key, value] pairs with
\* string keys, the mapping they spell; of a scalar or of a list holding
\* anything that is not a pair, an error.  (Elements that Python would also
\* take as pairs, two-character strings and two-key mappings, are not
\* among the values the model draws.)
PyDict(value) ==
    CASE value.t = "map" -> Ok(value.m)
      [] value.t = "list" ->
            IF \A i \in 1..Len(value.l) :
                  /\ value.l[i].t = "list"
                  /\ Len(value.l[i].l) = 2
                  /\ value.l[i].l[1].t = "str"
            THEN Ok(PairsToMap(value.l))
            ELSE Err("TypeError")
      [] value.t = "str" -> IF value.s = "" THEN Ok(EmptyMap) ELSE Err("ValueError")
      [] OTHER -> Err("TypeError")

(* ------------------ scrapers/idealista.py: the calls -------------------- *)

\* _call_standby without the test of the body's status (lines 232-233).
CallStandbyStatusOnly(resp) ==
    IF resp.kind = "error" THEN Err("RequestException")
    ELSE IF RaisesForStatus(resp) THEN Err("HTTPError")
    ELSE IF resp.body = NotJson THEN Err("JSONDecodeError")
    ELSE Ok(resp.body)

\* IdealistaScraper._call_standby(payload), given the response
IdealistaCallStandby(resp) ==
    IF resp.kind = "error" THEN Err("RequestException")
    ELSE IF RaisesForStatus(resp) THEN Err("HTTPError")
    ELSE IF resp.body = NotJson THEN Err("JSONDecodeError")
    ELSE IF resp.body.t = "map" /\ Get(resp.body.m, "status") = Str("failed")
         THEN Err("ValueError")
    ELSE Ok(resp.body)

\* IdealistaScraper._call_run_sync(payload), given the response
IdealistaCallRunSync(resp) ==
    IF resp.kind = "error" THEN Err("RequestException")
    ELSE IF RaisesForStatus(resp) THEN Err("HTTPError")
    ELSE IF resp.body = NotJson THEN Err("JSONDecodeError")
    ELSE LET data == resp.body
         IN IF data.t = "list"
            THEN IF data.l = <<>> THEN Err("ValueError") ELSE Ok(data.l[1])
            ELSE IF /\ data.t = "map"
                    /\ "items" \in DOMAIN data.m
                    /\ Truthy(data.m["items"])
                 THEN Item0(data.m["items"])
            ELSE Err("ValueError")

\* validate_url(normalized_url) for what _normalize_url returned
IdealistaValidates(normalized_url) ==
    normalized_url.t = "str" /\ IdealistaValidateUrl(normalized_url.s)

\* IdealistaScraper.scrape, lines 53-57: the URL passes the adapter's own
\* check and the network is tried.
IdealistaScrapeAccepts(url) == IdealistaValidates(IdealistaNormalizeUrl(url))

\* An Optional[dict] from the outcome of a step that may have raised.
ValueOrNone(outcome) == IF outcome.ok THEN Map(outcome.v) ELSE Null

\* _process_result(raw_result) under the except clauses of scrape: d is
\* the outcome of its dict(result).
IdealistaProcessedDict(d) ==
    IF ~d.ok THEN Null ELSE ValueOrNone(IdealistaProcessResult(d.v))

\* IdealistaScraper.scrape, lines 78-90: what scrape returns for the raw
\* result of the call that succeeded; every exception gives None.
IdealistaProcessed(raw_result) ==
    IF ~Truthy(raw_result) THEN Null
    ELSE IdealistaProcessedDict(PyDict(raw_result))

\* IdealistaScraper.scrape, lines 76-90, for the outcome of _call_run_sync
IdealistaFallback(r) == IF r.ok THEN IdealistaProcessed(r.v) ELSE Null

(* ----------------- scrapers/immobiliare.py: the call -------------------- *)

\* ImmobiliareScraper.scrape, lines 25-29
ImmobiliareScrapeAccepts(url) ==
    ImmobiliareValidateUrl(ImmobiliareNormalizeUrl(url))

\* _process_result(raw_result) under the except clauses of scrape: d is
\* the outcome of its dict(result).
ImmobiliareProcessedDict(d) ==
    IF ~d.ok THEN Null ELSE ValueOrNone(ImmobiliareProcessResult(d.v))

\* ImmobiliareScraper.scrape, lines 42-53, for the JSON the call returned
ImmobiliareProcessed(raw_result) ==
    IF ~Truthy(raw_result) THEN Null
    ELSE ImmobiliareProcessedDict(
            PyDict(IF raw_result.t = "list" THEN raw_result.l[1] ELSE raw_result))

\* ImmobiliareScraper.scrape, lines 33-60, given the response of
\* _call_run_sync: the processed listing, or None.
ImmobiliareScraped(resp) ==
    IF resp.kind = "error" THEN Null
    ELSE IF RaisesForStatus(resp) \/ resp.body = NotJson THEN Null
    ELSE ImmobiliareProcessed(resp.body)

(* ---------------- scrapers/james_edition.py: the calls ------------------ *)

\* An exception with its message.
Exc(e, msg) == [ok |-> FALSE, err |-> e, msg |-> msg]

\* The default of poll_interval, in seconds.
DEFAULT_POLL_INTERVAL_SECONDS == 5

\* _start_actor_run with the test of line 60 widened to every 2xx status.
StartActorRunAny2xx(resp) ==
    IF resp.kind = "error" THEN Exc("ConnectionError", "")
    ELSE IF resp.status_code < 200 \/ resp.status_code >= 300
         THEN Exc("RuntimeError",
                  "Failed to start James Edition scraper: "
                     \o NatToStr(resp.status_code) \o " - ")
    ELSE IF resp.body = NotJson
         THEN Exc("RuntimeError", "Unexpected response format from Apify API")
    ELSE LET data == resp.body
         IN IF data.t # "map" THEN Exc("TypeError", "")
            ELSE IF "data" \notin DOMAIN data.m
                 THEN Exc("RuntimeError", "Unexpected response format from Apify API")
            ELSE IF data.m["data"].t # "map" THEN Exc("TypeError", "")
            ELSE IF "id" \notin DOMAIN data.m["data"].m
                 THEN Exc("RuntimeError", "Unexpected response format from Apify API")
            ELSE Ok(data.m["data"].m["id"])

\* JamesEditionScraper._start_actor_run, given the response: the run id
\* data["data"]["id"].  Of the errors of that lookup only KeyError is
\* turned into RuntimeError.  (The messages stop before the response's
\* text, which is not modelled.)
JamesStartActorRun(resp) ==
    IF resp.kind = "error" THEN Exc("ConnectionError", "")
    ELSE IF resp.status_code # 201
         THEN Exc("RuntimeError",
                  "Failed to start James Edition scraper: "
                     \o NatToStr(resp.status_code) \o " - ")
    ELSE IF resp.body = NotJson
         THEN Exc("RuntimeError", "Unexpected response format from Apify API")
    ELSE LET data == resp.body
         IN IF data.t # "map" THEN Exc("TypeError", "")
            ELSE IF "data" \notin DOMAIN data.m
                 THEN Exc("RuntimeError", "Unexpected response format from Apify API")
            ELSE IF data.m["data"].t # "map" THEN Exc("TypeError", "")
            ELSE IF "id" \notin DOMAIN data.m["data"].m
                 THEN Exc("RuntimeError", "Unexpected response format from Apify API")
            ELSE Ok(data.m["data"].m["id"])

\* The loop of _wait_for_completion goes round again after a sleep.
Sleep == [ok |-> FALSE, err |-> "", msg |-> "sleep"]

\* The loop's round with the test of line 101 reduced to the dataset id:
\* any status with a dataset id ends the wait.
PollRoundDatasetOnly(resp) ==
    IF resp.kind = "error" THEN Exc("ConnectionError", "")
    ELSE IF resp.status_code # 200
         THEN Exc("RuntimeError", "Error checking James Edition run status")
    ELSE IF resp.body = NotJson
         THEN Exc("RuntimeError", "Invalid JSON while checking run status")
    ELSE LET payload == resp.body
             data == GetOrEmpty(Fn(payload), "data")
             status == Get(Fn(data), "status")
             dataset_id0 == Get(Fn(data), "defaultDatasetId")
         IN IF payload.t # "map" \/ data.t # "map" THEN Exc("AttributeError", "")
            ELSE IF Truthy(dataset_id0) THEN Ok(dataset_id0)
            ELSE IF ~Hashable(status) THEN Exc("TypeError", "")
            ELSE IF status \in {Str("FAILED"), Str("TIMED-OUT")}
                 THEN Exc("RuntimeError",
                          "James Edition scraper run ended with status " \o status.s)
            ELSE Sleep

\* The loop's round with FAILED as the only failure status: a run that
\* timed out is waited for.
PollRoundFailedOnly(resp) ==
    IF resp.kind = "error" THEN Exc("ConnectionError", "")
    ELSE IF resp.status_code # 200
         THEN Exc("RuntimeError", "Error checking James Edition run status")
    ELSE IF resp.body = NotJson
         THEN Exc("RuntimeError", "Invalid JSON while checking run status")
    ELSE LET payload == resp.body
             data == GetOrEmpty(Fn(payload), "data")
             status == Get(Fn(data), "status")
             dataset_id0 == Get(Fn(data), "defaultDatasetId")
         IN IF payload.t # "map" \/ data.t # "map" THEN Exc("AttributeError", "")
            ELSE IF status = Str("SUCCEEDED") /\ Truthy(dataset_id0)
                 THEN Ok(dataset_id0)
            ELSE IF ~Hashable(status) THEN Exc("TypeError", "")
            ELSE IF status = Str("FAILED")
                 THEN Exc("RuntimeError",
                          "James Edition scraper run ended with status " \o status.s)
            ELSE Sleep

\* The loop's round with the test of line 101 reduced to the status: a
\* run that succeeded ends the wait, with or without a dataset id.
PollRoundSucceededOnly(resp) ==
    IF resp.kind = "error" THEN Exc("ConnectionError", "")
    ELSE IF resp.status_code # 200
         THEN Exc("RuntimeError", "Error checking James Edition run status")
    ELSE IF resp.body = NotJson
         THEN Exc("RuntimeError", "Invalid JSON while checking run status")
    ELSE LET payload == resp.body
             data == GetOrEmpty(Fn(payload), "data")
             status == Get(Fn(data), "status")
             dataset_id0 == Get(Fn(data), "defaultDatasetId")
         IN IF payload.t # "map" \/ data.t # "map" THEN Exc("AttributeError", "")
            ELSE IF status = Str("SUCCEEDED") THEN Ok(dataset_id0)
            ELSE IF ~Hashable(status) THEN Exc("TypeError", "")
            ELSE IF status \in {Str("FAILED"), Str("TIMED-OUT")}
                 THEN Exc("RuntimeError",
                          "James Edition scraper run ended with status " \o status.s)
            ELSE Sleep

\* One round of the loop of JamesEditionScraper._wait_for_completion, given
\* the response: [ok, v] the dataset id to return, an exception, or
\* Sleep when the loop goes round again.
JamesPollRound(resp) ==
    IF resp.kind = "error" THEN Exc("ConnectionError", "")
    ELSE IF resp.status_code # 200
         THEN Exc("RuntimeError", "Error checking James Edition run status")
    ELSE IF resp.body = NotJson
         THEN Exc("RuntimeError", "Invalid JSON while checking run status")
    ELSE LET payload == resp.body
             data == GetOrEmpty(Fn(payload), "data")
             status == Get(Fn(data), "status")
             dataset_id0 == Get(Fn(data), "defaultDatasetId")
         IN IF payload.t # "map" \/ data.t # "map" THEN Exc("AttributeError", "")
            ELSE IF status = Str("SUCCEEDED") /\ Truthy(dataset_id0)
                 THEN Ok(dataset_id0)
            ELSE IF ~Hashable(status) THEN Exc("TypeError", "")
            ELSE IF status \in {Str("FAILED"), Str("TIMED-OUT")}
                 THEN Exc("RuntimeError",
                          "James Edition scraper run ended with status " \o status.s)
            ELSE Sleep

\* JamesEditionScraper._fetch_results, given the response
JamesFetchResults(resp) ==
    IF resp.kind = "error" THEN Exc("ConnectionError", "")
    ELSE IF resp.status_code # 200
         THEN Exc("RuntimeError", "Error fetching James Edition dataset")
    ELSE IF resp.body = NotJson
         THEN Exc("RuntimeError", "Invalid JSON returned for dataset")
    ELSE Ok(resp.body)

(* ---------------------- api/scrapers_service.py ------------------------- *)

NotRun == [ok |-> FALSE, err |-> "not run"]

NoProvider == ""

\* How scrape_url ends: with an HTTPException, with another exception that
\* nothing in it catches, or with its return value (the provider and the
\* two lists, kept in their own variables).
HTTPException(status_code, detail) ==
    [kind |-> "HTTPException", status_code |-> status_code, detail |-> detail]

Raised(exc) == [kind |-> "raised", exc |-> exc]

Returned == [kind |-> "return"]

NoResponse == [kind |-> "none"]

\* ScraperService._setup_workflows: the registry for a credential.
SetupWorkflows(key) ==
    IF Truthy(key) THEN <<"idealista", "immobiliare", "james_edition">>
    ELSE <<>>

\* The url_validator registered under a provider name.
UrlValidator(provider_name, url) ==
    CASE provider_name = "idealista" -> IdealistaValidateUrl(url)
      [] provider_name = "immobiliare" -> ImmobiliareValidateUrl(url)
      [] provider_name = "james_edition" -> JamesEditionValidateUrl(url)

RECURSIVE MatchWithoutBreak(_, _)
\* The loop without its break: every validator runs and the last provider
\* that accepts stays in matched_provider.
MatchWithoutBreak(flows, url) ==
    IF flows = <<>> THEN [matched_provider |-> NoProvider, validated |-> <<>>]
    ELSE LET rest == MatchWithoutBreak(Tail(flows), url)
         IN [matched_provider |->
                 IF rest.matched_provider # NoProvider THEN rest.matched_provider
                 ELSE IF UrlValidator(Head(flows), url) THEN Head(flows)
                 ELSE NoProvider,
             validated |-> <<Head(flows)>> \o rest.validated]

RECURSIVE MatchWorkflow(_, _)
\* The loop of scrape_url, lines 143-148, over the registry flows: the
\* provider it leaves in matched_provider and the validators it has called.
MatchWorkflow(flows, url) ==
    IF flows = <<>> THEN [matched_provider |-> NoProvider, validated |-> <<>>]
    ELSE IF UrlValidator(Head(flows), url)
         THEN [matched_provider |-> Head(flows), validated |-> <<Head(flows)>>]
    ELSE LET rest == MatchWorkflow(Tail(flows), url)
         IN [matched_provider |-> rest.matched_provider,
             validated |-> <<Head(flows)>> \o rest.validated]

\* The credential test as "is None" instead of falsy.
CredentialIsNone(key) == key = Null

\* scrape_url, line 134
NotConfigured(key) == ~Truthy(key)

\* A function's outcome: its value, or the way scrape_url ends when the
\* function raises.
Raise(resp) == [ok |-> FALSE, exc |-> resp]

\* _scrape_idealista / _scrape_immobiliare before the adapter is called:
\* the HTTPException raised there, or NoResponse.
ScraperGuard(provider_name, key, url) ==
    IF provider_name = "james_edition"
    THEN IF ~Truthy(key)
         THEN HTTPException(500, "Scraper service not configured. Set APIFY_API_KEY.")
         ELSE NoResponse
    ELSE IF ~Truthy(key)
         THEN HTTPException(500, "Scraper service not configured. Set APIFY_API_KEY.")
    ELSE IF ~UrlValidator(provider_name, url)
         THEN HTTPException(400,
                 IF provider_name = "idealista"
                 THEN "Invalid URL. Provide a valid Idealista property URL."
                 ELSE "Invalid URL. Provide a valid Immobiliare property URL.")
    ELSE NoResponse

\* _scrape_idealista, lines 77-82, for what scrape returned
ScrapeIdealista(result) ==
    IF result = Null
    THEN Raise(HTTPException(404,
            "Idealista scraper returned no data. Verify the listing is public."))
    ELSE Ok(List(<<result>>))

\* _scrape_immobiliare, lines 104-109, for what scrape returned
ScrapeImmobiliare(result) ==
    IF ~Truthy(result)
    THEN Raise(HTTPException(404,
            "Immobiliare scraper returned no data. Verify the listing is public."))
    ELSE Ok(List(<<result>>))

\* _scrape_james_edition, lines 118-130, for what scrape returned or raised
ScrapeJamesEdition(outcome) ==
    IF ~outcome.ok
    THEN CASE outcome.err = "ValueError" -> Raise(HTTPException(400, outcome.msg))
           [] outcome.err = "RuntimeError" -> Raise(HTTPException(500, outcome.msg))
           [] OTHER -> Raise(Raised(outcome.err))
    ELSE IF ~Truthy(outcome.v)
         THEN Raise(HTTPException(404,
                 "James Edition scraper returned no data. Verify the listing is public."))
    ELSE outcome

\* normalize_scraped_listing(provider, item) for any value item: a falsy one
\* gives {}, a truthy one that is no mapping has no get().
NormalizeItem(provider0, item) ==
    IF item.t = "map" THEN NormalizeScrapedListing(provider0, item.m)
    ELSE IF ~Truthy(item) THEN Ok(EmptyMap)
    ELSE Err("AttributeError")

\* One more item's outcome n put before the outcome of the items after it.
NormalizedCons(n, rest) ==
    IF ~n.ok THEN [out |-> <<>>, calls |-> 1, err |-> n.err]
    ELSE [out |-> <<n.v>> \o rest.out, calls |-> 1 + rest.calls, err |-> rest.err]

RECURSIVE NormalizeAll(_, _)
\* The comprehension of lines 173-176 over the items: the mappings built,
\* the calls made, and the exception that stopped it ("" for none).
NormalizeAll(provider0, items) ==
    IF items = <<>> THEN [out |-> <<>>, calls |-> 0, err |-> ""]
    ELSE NormalizedCons(NormalizeItem(provider0, Head(items)),
                        IF NormalizeItem(provider0, Head(items)).ok
                        THEN NormalizeAll(provider0, Tail(items))
                        ELSE [out |-> <<>>, calls |-> 0, err |-> ""])

\* The first item's test as "has no key" instead of "has no truthy value".
NoKey(first) == DOMAIN first = {}

\* not any(first.values())
NoTruthyValue(first) == ~\E k \in DOMAIN first : Truthy(first[k])

NoValidData ==
    HTTPException(404,
        "No valid data returned. Check if the URL is correct and the property is available.")

\* The items a list holds.
Items(value) == IF value.t = "list" THEN value.l ELSE <<>>

\* scrape_url, lines 173-178: the end of the call for the outcome n of the
\* comprehension.
NormalizedOrRaised(results0, n) ==
    IF n.err # ""
    THEN [results |-> results0, normalized_results |-> <<>>,
          canon_calls |-> n.calls, response |-> Raised(n.err)]
    ELSE [results |-> results0, normalized_results |-> n.out,
          canon_calls |-> n.calls, response |-> Returned]

\* The end of the call before any item is normalized.
Ended(results0, resp) ==
    [results |-> results0, normalized_results |-> <<>>, canon_calls |-> 0,
     response |-> resp]

\* scrape_url, lines 166-178, for results[0] and what reading it gave
FirstItemChecked(provider_name, results0, first) ==
    IF ~first.ok THEN Ended(results0, Raised(first.err))
    ELSE IF first.v.t # "map" THEN Ended(results0, Raised("AttributeError"))
    ELSE IF NoTruthyValue(first.v.m) THEN Ended(results0, NoValidData)
    ELSE NormalizedOrRaised(results0, NormalizeAll(provider_name, Items(results0)))

\* scrape_url, lines 159-178, for the value scraper_func returned
ResultsChecked(provider_name, results0) ==
    IF ~Truthy(results0) THEN Ended(results0, NoValidData)
    ELSE IF results0.t \notin {"list", "map", "str"}
         THEN Ended(results0, Raised("TypeError"))
    ELSE FirstItemChecked(provider_name, results0, Item0(results0))

\* scrape_url, lines 157-178, for the outcome w of scraper_func(post_url).
ScrapeUrlTail(provider_name, w) ==
    IF ~w.ok THEN Ended(Null, w.exc)
    ELSE ResultsChecked(provider_name, w.v)

(* ------------------ parts of the state that stand still ---------------- *)

\* No call of normalize_scraped_listing is being observed.
CanonOff ==
    /\ phase = "off"
    /\ provider = ""
    /\ raw = EmptyMap
    /\ normalized = NotRun
    /\ renormalized = NotRun

\* No price text is being parsed.
PriceOff ==
    /\ price_text = ""
    /\ tokenized = NotRun
    /\ parsed_price = NotRun

\* The request-local state of scrape_url before a call.
RequestIdle ==
    /\ post_url = ""
    /\ validated = <<>>
    /\ matched_provider = NoProvider
    /\ scrape_calls = <<>>
    /\ net_log = <<>>
    /\ run_id = Null
    /\ dataset_id = Null
    /\ polls = <<>>
    /\ adapter_result = NotRun
    /\ results = Null
    /\ normalized_results = <<>>
    /\ canon_calls = 0
    /\ response = NoResponse

\* No ScraperService is running.
ServiceOff ==
    /\ apify_api_key = Null
    /\ workflows = <<>>
    /\ pc = "off"
    /\ RequestIdle

(* ------------------- the canonicalizer on drawn inputs ----------------- *)

ProviderNames == {"idealista", "immobiliare", "james_edition"}

\* Seeds of the string hash the harness draws from.
HashSeeds == {-3, 1, 2}

\* The values a raw listing's field may be given: for each key the
\* canonicalizer reads, values of every Python type the code tells apart
\* there; "source" stands for the keys it never reads.
FieldValues(k) ==
    CASE k = "price" ->
            {IntV(350000), IntV(-5), IntV(0), Bool(TRUE), Float(12345, 1),
             Str("1.234,56 €"), Str(" 99.5 "), Str("nan"), Str("-inf"),
             List(<<IntV(1)>>),
             Map(M1("formatted", Str("1.234,56 €"))),
             Map(M1("formatted", Str("1.234.567"))),
             Map(M1("formatted", Str("350.000"))),
             Map(M1("formatted", Str("Price on request"))),
             Map(M1("formatted", IntV(5))),
             Map(M1("amount", IntV(0)) @@ M1("formatted", Str("12,5"))),
             Map(M1("amount", IntV(0)) @@ M1("formatted", Str("1.200 EUR"))),
             Map(M1("amount", IntV(-5))),
             Map(M1("amount", Str("abc")) @@ M1("formatted", Str("12"))),
             Map(M1("parsed", IntV(3)) @@ M1("amount", IntV(4))),
             Map(M1("parsed", IntV(0)) @@ M1("amount", IntV(350000))),
             Map(M1("parsed", IntV(0)) @@ M1("amount", IntV(350000))
                   @@ M1("formatted", Str("99 €"))),
             Map(M1("amount", IntV(350000)) @@ M1("formatted", Str("99 €"))),
             Map(M1("dataPrice", Str(" 250000 ")) @@ M1("value", IntV(7))),
             Map(M1("value", Float(9995, 1)) @@ M1("formatted", Str("1 €"))),
             Map(M1("amount", Bool(FALSE)) @@ M1("formatted", Str("7,5 €"))),
             Map(M1("currency", Str("€")))}
      [] k = "priceInfo" ->
            {Map(M1("amount", Float(123456, 5)) @@ M1("currency", Str("€"))
                   @@ M1("formatted", Str("1.234,56 €"))),
             Map(M1("amount", Null) @@ M1("currency", Null)
                   @@ M1("formatted", Str("Price on request"))),
             Str("450000")}
      [] k = "location" ->
            {Str(" Rome "), IntV(5), List(<<Str("Rome"), IntV(1)>>),
             Map(EmptyMap),
             Map(M1("city", Str(" Rome ")) @@ M1("region", Str("Lazio"))
                   @@ M1("country", Str("IT"))),
             Map(M1("city", Str("  ")) @@ M1("state", IntV(7))),
             Map(M1("address", Str("Via Roma 1")))}
      [] k = "locationInfo" ->
            {Map(M1("city", Str("Madrid")) @@ M1("state", Null)
                   @@ M1("country", Str("ES"))),
             Map(M1("city", Null) @@ M1("state", Null) @@ M1("country", Null))}
      [] k = "address" -> {Str("Via Roma 1"), Map(M1("city", Float(25, 1)))}
      [] k = "photos" ->
            {Str(""), Str("p1.jpg"), IntV(3), List(<<>>),
             List(<<Str("p1.jpg"), Str("p2.jpg"), Str("p3.jpg"), Str("p4.jpg")>>),
             List(<<Str(""), IntV(7), Null, Map(M1("url", Str("u")))>>)}
      [] k = "imageUrls" -> {List(<<Str("i1.jpg"), Str("i2.jpg")>>), List(<<>>)}
      [] k = "images" -> {List(<<Str("g1.jpg")>>), Str(""), Bool(TRUE)}
      [] k = "gallery" ->
            {List(<<Map(M1("url", Str("g.jpg")))>>), List(<<IntV(0)>>)}
      [] k = "primaryImageUrl" -> {Str("main.jpg"), IntV(5), Null}
      [] k = "image" -> {Str("img.jpg"), List(<<Str("a.jpg"), Bool(FALSE)>>)}
      [] k = "description" -> {Str(" Nice flat "), Str("  "), IntV(0), Null}
      [] k = "features" -> {List(<<Str("lift"), Str("garden")>>), Str("pool")}
      [] k = "summary" -> {Str("A summary"), Bool(FALSE)}
      [] k = "propertyType" -> {Str("flat")}
      [] k = "rooms" ->
            {IntV(3), IntV(0), Str("4"), Str("x"), Str("2.5"), Float(25, 1),
             Float(-25, 1), Inf(FALSE), NaN, List(<<IntV(2)>>)}
      [] k = "bedrooms" -> {IntV(2), Str("")}
      [] k = "bedroomCount" -> {IntV(1), Null}
      [] k = "roomCount" -> {Str(" 5 ")}
      [] k = "id" ->
            {IntV(7), IntV(0), Str(" a7 "), Str("  "), Str(""), Bool(FALSE),
             Null, List(<<>>), Map(EmptyMap)}
      [] k = "dataAttributes" ->
            {Map(M1("id", IntV(9))), Map(M1("id", Str(""))), Map(EmptyMap),
             Null, Str("x"), List(<<IntV(1)>>), IntV(4)}
      [] k = "listingUrl" ->
            {Str("https://a.example/1"), Str(""), IntV(1000000), IntV(-1),
             List(<<IntV(1)>>)}
      [] k = "url" ->
            {Str(" https://b.example/2 "), Map(M1("href", Str("x"))),
             Float(25, 1)}
      [] k = "title" -> {Str(" Villa "), Str(""), IntV(5)}
      [] k = "name" -> {Str("A name")}
      [] k = "desc" -> {Str("Old desc")}
      [] k = "source" -> {Str("idealista"), Null, Str(""), IntV(0)}

RawKeys ==
    {"price", "priceInfo", "location", "locationInfo", "address", "photos",
     "imageUrls", "images", "gallery", "primaryImageUrl", "image",
     "description", "features", "summary", "propertyType", "rooms",
     "bedrooms", "bedroomCount", "roomCount", "id", "dataAttributes",
     "listingUrl", "url", "title", "name", "desc", "source"}

CanonInit ==
    /\ hash_seed \in HashSeeds
    /\ provider \in ProviderNames \cup {""}
    /\ raw = EmptyMap
    /\ phase = "build"
    /\ normalized = NotRun
    /\ renormalized = NotRun
    /\ PriceOff
    /\ ServiceOff

\* The caller puts one more field into the listing it will hand over.
SetField(k, v) ==
    /\ phase = "build"
    /\ k \notin DOMAIN raw
    /\ Cardinality(DOMAIN raw) < MaxFields
    /\ raw' = raw @@ M1(k, v)
    /\ UNCHANGED <<hash_seed, phase, provider, normalized, renormalized>>
    /\ UNCHANGED <<price_vars, service_vars, request_vars>>

\* normalize_scraped_listing(provider, raw)
Canonicalize ==
    /\ phase = "build"
    /\ normalized' = NormalizeScrapedListing(provider, raw)
    /\ phase' = "canon"
    /\ UNCHANGED <<hash_seed, provider, raw, renormalized>>
    /\ UNCHANGED <<price_vars, service_vars, request_vars>>

\* normalize_scraped_listing(provider, c) for the mapping c the first call
\* returned.
Recanonicalize ==
    /\ phase = "canon"
    /\ normalized.ok
    /\ renormalized' = NormalizeScrapedListing(provider, normalized.v)
    /\ phase' = "recanon"
    /\ UNCHANGED <<hash_seed, provider, raw, normalized>>
    /\ UNCHANGED <<price_vars, service_vars, request_vars>>

CanonNext ==
    \/ \E k \in RawKeys : \E v \in FieldValues(k) : SetField(k, v)
    \/ Canonicalize
    \/ Recanonicalize

SpecCanon == CanonInit /\ [][CanonNext]_vars

(* ------------------- the price parsers on drawn texts ------------------ *)

\* Price texts: a number in one of the notations the listings use, with or
\* without a currency before or after it.
PriceNumbers ==
    {"1.234,56", "350.000", "1.234.567", "1,200,000", "12,5", "350000",
     "99.5", "1.234", "12", "on request", ""}

PricePrefixes == {"", "€ ", "from "}

PriceSuffixes == {"", " €", " EUR", " euro", "€"}

PriceTexts ==
    {p \o n \o q : p \in PricePrefixes, n \in PriceNumbers, q \in PriceSuffixes}

PriceInit ==
    /\ hash_seed = 1
    /\ price_text \in PriceTexts
    /\ tokenized = NotRun
    /\ parsed_price = NotRun
    /\ CanonOff
    /\ ServiceOff

\* IdealistaScraper._process_result, lines 96-113, on a listing whose
\* "price" is the text: the amount and the currency of its priceInfo.
TokenizeIdealista ==
    /\ tokenized = NotRun
    /\ tokenized' = (IF Truthy(Str(price_text)) THEN TokenizePrice(Str(price_text))
                     ELSE Ok([amount |-> Null, currency |-> Null]))
    /\ UNCHANGED <<hash_seed, price_text, parsed_price>>
    /\ UNCHANGED <<canon_vars, service_vars, request_vars>>

\* normalize_scraped_listing, lines 41-67, on a listing whose price block
\* holds the text as "formatted": the canonical price.
ParseFormattedPrice ==
    /\ parsed_price = NotRun
    /\ parsed_price' =
          PriceFloat(M1("price", Map(M1("formatted", Str(price_text)))))
    /\ UNCHANGED <<hash_seed, price_text, tokenized>>
    /\ UNCHANGED <<canon_vars, service_vars, request_vars>>

PriceNext ==
    \/ TokenizeIdealista
    \/ ParseFormattedPrice

SpecPrice == PriceInit /\ [][PriceNext]_vars

(* --------------------- ScraperService.scrape_url ----------------------- *)

\* URLs a caller may post: for each provider one that only its validator
\* accepts, URLs that two or all three validators accept, and URLs that
\* none accepts.
PostUrls ==
    {"https://www.idealista.com/inmueble/1/",
     "https://www.immobiliare.it/annunci/1/",
     "https://www.jamesedition.com/real_estate/villa-1",
     "https://www.immobiliare.it/annunci/1/?x=idealista.pt",
     "https://www.jamesedition.com/real-estate/immobiliare.it-1",
     "https://www.jamesedition.com/real_estate/idealista.com",
     "https://www.jamesedition.com/real_estate/idealista.com-immobiliare.it",
     "https://www.jamesedition.com/cars/6",
     "https://example.com/listing/5",
     ""}

\* Raw listings the Idealista actor may answer with.
IdealistaItems ==
    {M1("Url", Str("https://www.idealista.com/inmueble/1/"))
        @@ M1("title", Str("Piso en Madrid"))
        @@ M1("price", Str("1.234,56 €"))
        @@ M1("MainImage", Str("main.jpg")),
     M1("price", Str("350.000 €"))
        @@ M1("location", Map(M1("city", Str("Madrid")) @@ M1("country", Str("ES"))))
        @@ M1("propertySpecs", Map(M1("rooms", IntV(3))))
        @@ M1("gallery", List(<<Map(M1("url", Str("g1.jpg")))>>)),
     M1("price", IntV(350000)),
     EmptyMap}

IdealistaStandbyResponses ==
    {NetError, Http(502, NotJson), Http(200, NotJson), Http(200, Null),
     Http(200, Map(M1("status", Str("failed")) @@ M1("error", Str("blocked"))))}
       \cup {Http(200, Map(item)) : item \in IdealistaItems}
       \cup {Http(200, List(<<Map(item)>>)) : item \in IdealistaItems}

IdealistaRunSyncResponses ==
    {NetError, Http(500, NotJson), Http(201, NotJson), Http(201, List(<<>>)),
     Http(201, Map(M1("items", List(<<>>)))),
     Http(201, Map(M1("items", Str("none")))),
     Http(201, Map(M1("error", Str("x"))))}
       \cup {Http(201, List(<<Map(item)>>)) : item \in IdealistaItems}
       \cup {Http(201, Map(M1("items", List(<<Map(item)>>)))) : item \in IdealistaItems}
       \cup {Http(201, Map(item)) : item \in IdealistaItems}

\* Raw listings the Immobiliare actor may answer with.
ImmobiliareItems ==
    {M1("url", Str("https://www.immobiliare.it/annunci/1/"))
        @@ M1("title", Str("Trilocale"))
        @@ M1("price", Map(M1("formatted", Str("€ 350.000")) @@ M1("amount", IntV(350000))))
        @@ M1("rooms", Str("3 locali"))
        @@ M1("media", Map(M1("images", List(<<Str("i1.jpg"), Str("i2.jpg")>>)))),
     M1("price", IntV(1234567)) @@ M1("c", Str("Roma")) @@ M1("desc", Str("Luminoso")),
     M1("dataType", Str("agency")) @@ M1("url", Str("https://www.immobiliare.it/agenzie/1/")),
     M1("basicInfo", Str("x")),
     M1("infoCosti", List(<<>>)),
     EmptyMap}

ImmobiliareResponses ==
    {NetError, Http(500, NotJson), Http(201, NotJson), Http(201, Null),
     Http(201, List(<<>>)), Http(201, List(<<IntV(5)>>))}
       \cup {Http(201, List(<<Map(item)>>)) : item \in ImmobiliareItems}
       \cup {Http(200, Map(item)) : item \in ImmobiliareItems}

JamesStartResponses ==
    {NetError, Http(401, NotJson), Http(200, Map(M1("data", Map(M1("id", Str("run1")))))),
     Http(201, NotJson), Http(201, Map(EmptyMap)), Http(201, List(<<>>)),
     Http(201, Map(M1("data", Null))), Http(201, Map(M1("data", Map(EmptyMap)))),
     Http(201, Map(M1("data", Map(M1("id", Str("run1")))))),
     Http(201, Map(M1("data", Map(M1("id", Null)))))}

RunData(status, dataset) ==
    Map(M1("data", Map(M1("status", status) @@ M1("defaultDatasetId", dataset))))

JamesStatusResponses ==
    {NetError, Http(404, NotJson), Http(200, NotJson), Http(200, List(<<>>)),
     Http(200, Map(M1("data", Null))), Http(200, Map(EmptyMap)),
     Http(200, RunData(Str("RUNNING"), Str("ds1"))),
     Http(200, RunData(Str("READY"), Null)),
     Http(200, RunData(Str("SUCCEEDED"), Str("ds1"))),
     Http(200, RunData(Str("SUCCEEDED"), Null)),
     Http(200, RunData(Str("FAILED"), Str("ds1"))),
     Http(200, RunData(Str("TIMED-OUT"), Null)),
     Http(200, RunData(Str("ABORTED"), Str("ds1"))),
     Http(200, RunData(List(<<>>), Null))}

\* Raw listings the James Edition dataset may hold.
JamesVilla ==
    M1("title", Str("Villa")) @@ M1("price", IntV(2500000))
       @@ M1("url", Str("https://www.jamesedition.com/real_estate/villa-1"))
       @@ M1("images", List(<<Str("a.jpg"), Str("b.jpg"), Str("c.jpg"), Str("d.jpg")>>))

JamesLoft ==
    M1("name", Str("Loft")) @@ M1("price", Map(M1("formatted", Str("€ 1.200.000"))))
       @@ M1("id", IntV(77))

JamesDatasets ==
    {Null, Map(EmptyMap), Map(M1("error", Str("x"))), List(<<>>),
     List(<<Map(EmptyMap)>>),
     List(<<Map(M1("title", Str("")) @@ M1("price", IntV(0)))>>),
     List(<<Map(M1("title", Str(""))), Map(JamesVilla)>>),
     List(<<Map(JamesVilla)>>),
     List(<<Map(JamesVilla), Map(JamesLoft)>>),
     List(<<Map(JamesLoft), Map(JamesVilla)>>),
     List(<<Map(JamesVilla), Map(EmptyMap)>>),
     List(<<Map(JamesVilla), Map(M1("title", Str("x")) @@ M1("dataAttributes", Str("x")))>>),
     List(<<Map(JamesVilla), IntV(5)>>),
     List(<<Str("x")>>)}

JamesDatasetResponses ==
    {NetError, Http(403, NotJson), Http(200, NotJson)}
       \cup {Http(200, body) : body \in JamesDatasets}

ApiKeys == {Null, Str(""), Str("apify_api_key")}

\* The state after ScraperService(apify_api_key) with the environment's
\* APIFY_API_KEY already folded into the argument.
Init ==
    /\ hash_seed \in HashSeeds
    /\ apify_api_key \in ApiKeys
    /\ workflows = SetupWorkflows(apify_api_key)
    /\ pc = "idle"
    /\ RequestIdle
    /\ CanonOff
    /\ PriceOff

\* IdealistaScraper.prepare_payload(url=normalized_url) with its defaults
IdealistaPayload(url) ==
    Map(M1("Url", IdealistaNormalizeUrl(url))
        @@ M1("proxyConfig",
              Map(M1("useApifyProxy", Bool(TRUE))
                  @@ M1("apifyProxyGroups", List(<<Str("RESIDENTIAL")>>))))
        @@ M1("maxRetries", IntV(2))
        @@ M1("timeout", IntV(30))
        @@ M1("saveMapImages", Bool(TRUE))
        @@ M1("includeGallery", Bool(TRUE))
        @@ M1("extractContactInfo", Bool(TRUE)))

\* ImmobiliareScraper.prepare_payload(url=url) with its defaults, for the
\* normalised url
ImmobiliarePayload(url) ==
    Map(M1("startUrls", List(<<Str(ImmobiliareNormalizeUrl(url))>>))
        @@ M1("maxConcurrency", IntV(10))
        @@ M1("minConcurrency", IntV(1))
        @@ M1("maxRequestRetries", IntV(100))
        @@ M1("proxyConfiguration", Map(M1("useApifyProxy", Bool(TRUE)))))

\* JamesEditionScraper._start_actor_run: the payload for start_url
JamesPayload(start_url) ==
    Map(M1("startUrl", Str(start_url)) @@ M1("maxItems", IntV(1)))

\* An HTTP request and the response to it: who sent it, to which endpoint,
\* what it carried (the payload of a POST, the id in the URL of a GET) and
\* what came back.
Request(provider_name, endpoint, sent, resp) ==
    [provider |-> provider_name, endpoint |-> endpoint, sent |-> sent,
     resp |-> resp]

\* scrape_url ends here with resp and without a result of scraper_func.
Fail(resp) ==
    /\ pc' = "done"
    /\ response' = resp
    /\ UNCHANGED <<results, normalized_results, canon_calls>>

\* scrape_url runs to its end with the record t of ScrapeUrlTail.
Finished(t) ==
    /\ pc' = "done"
    /\ results' = t.results
    /\ normalized_results' = t.normalized_results
    /\ canon_calls' = t.canon_calls
    /\ response' = t.response

\* scraper_func(post_url) has ended with the outcome w for the provider;
\* scrape_url runs to its end (lines 157-178).
Finish(provider_name, w) == Finished(ScrapeUrlTail(provider_name, w))

\* The adapter waits for the response to its first request.
Await(label) ==
    /\ pc' = label
    /\ UNCHANGED <<adapter_result, results, normalized_results, canon_calls,
                   response>>

\* The matched provider's scraper callable, up to the first HTTP request.
CallScraper(provider_name, url) ==
    CASE provider_name = "idealista" ->
            IF IdealistaScrapeAccepts(url)
            THEN Await("idealista_standby")
            ELSE /\ adapter_result' = Ok(Null)
                 /\ Finish("idealista", ScrapeIdealista(Null))
      [] provider_name = "immobiliare" ->
            IF ImmobiliareScrapeAccepts(url)
            THEN Await("immobiliare_run_sync")
            ELSE /\ adapter_result' = Ok(Null)
                 /\ Finish("immobiliare", ScrapeImmobiliare(Null))
      [] provider_name = "james_edition" ->
            IF JamesEditionValidateUrl(url)
            THEN Await("james_start")
            ELSE /\ adapter_result' =
                       Exc("ValueError", "Invalid James Edition property URL.")
                 /\ Finish("james_edition",
                           ScrapeJamesEdition(
                              Exc("ValueError", "Invalid James Edition property URL.")))

\* scrape_url, lines 150-157, for the provider the loop has matched and the
\* exception guard that its scraper callable raises before the adapter
\* is called (NoResponse for none).
Dispatch(url, m, guard) ==
    /\ validated' = m.validated
    /\ matched_provider' = m.matched_provider
    /\ IF m.matched_provider = NoProvider
       THEN /\ Fail(HTTPException(400,
                   "URL does not match any supported scraper (Idealista, Immobiliare, James Edition)."))
            /\ UNCHANGED <<scrape_calls, adapter_result>>
       ELSE /\ scrape_calls' = Append(scrape_calls, m.matched_provider)
            /\ IF guard # NoResponse
               THEN Fail(guard) /\ UNCHANGED adapter_result
               ELSE CallScraper(m.matched_provider, url)

Matched(url, m) ==
    Dispatch(url, m, ScraperGuard(m.matched_provider, apify_api_key, url))

\* scrape_url(post_url), lines 132-157 and on into the matched provider's
\* scraper callable, up to the adapter's first HTTP request.
ScrapeUrl(url) ==
    /\ pc = "idle"
    /\ post_url' = url
    /\ UNCHANGED <<hash_seed, canon_vars, price_vars, service_vars>>
    /\ UNCHANGED <<net_log, run_id, dataset_id, polls>>
    /\ IF NotConfigured(apify_api_key)
       THEN /\ Fail(HTTPException(500,
                   "Scraper service not configured. Set APIFY_API_KEY in environment."))
            /\ UNCHANGED <<validated, matched_provider, scrape_calls, adapter_result>>
       ELSE Matched(url, MatchWorkflow(workflows, url))

\* scrape() has returned result to _scrape_idealista.
IdealistaReturns(result) ==
    /\ adapter_result' = Ok(result)
    /\ Finish("idealista", ScrapeIdealista(result))

\* The standby call has ended with the outcome r.
StandbyEnded(r) ==
    IF r.ok THEN IdealistaReturns(IdealistaProcessed(r.v))
    ELSE Await("idealista_run_sync")

\* IdealistaScraper.scrape, lines 68-76: the standby call and its response.
\* A result ends the scrape; any exception sends it to the fallback.
IdealistaStandby(resp) ==
    /\ pc = "idealista_standby"
    /\ net_log' = Append(net_log,
                      Request("idealista", "standby",
                              IdealistaPayload(post_url), resp))
    /\ UNCHANGED <<hash_seed, canon_vars, price_vars, service_vars>>
    /\ UNCHANGED <<post_url, validated, matched_provider, scrape_calls, run_id,
                   dataset_id, polls>>
    /\ StandbyEnded(IdealistaCallStandby(resp))

\* IdealistaScraper.scrape, line 76 on: the run-sync call and its response.
IdealistaRunSync(resp) ==
    /\ pc = "idealista_run_sync"
    /\ net_log' = Append(net_log,
                      Request("idealista", "run-sync",
                              IdealistaPayload(post_url), resp))
    /\ UNCHANGED <<hash_seed, canon_vars, price_vars, service_vars>>
    /\ UNCHANGED <<post_url, validated, matched_provider, scrape_calls, run_id,
                   dataset_id, polls>>
    /\ IdealistaReturns(IdealistaFallback(IdealistaCallRunSync(resp)))

\* scrape() has returned result to _scrape_immobiliare.
ImmobiliareReturns(result) ==
    /\ adapter_result' = Ok(result)
    /\ Finish("immobiliare", ScrapeImmobiliare(result))

\* ImmobiliareScraper.scrape, lines 33-60: the run-sync call and its response.
ImmobiliareRunSync(resp) ==
    /\ pc = "immobiliare_run_sync"
    /\ net_log' = Append(net_log,
                      Request("immobiliare", "run-sync",
                              ImmobiliarePayload(post_url), resp))
    /\ UNCHANGED <<hash_seed, canon_vars, price_vars, service_vars>>
    /\ UNCHANGED <<post_url, validated, matched_provider, scrape_calls, run_id,
                   dataset_id, polls>>
    /\ ImmobiliareReturns(ImmobiliareScraped(resp))

\* scrape() has returned or raised outcome: to _scrape_james_edition when
\* the dispatcher made the call, else to the caller of the adapter itself.
JamesReturns(outcome) ==
    /\ adapter_result' = outcome
    /\ IF matched_provider = NoProvider
       THEN /\ pc' = "done"
            /\ UNCHANGED <<results, normalized_results, canon_calls, response>>
       ELSE Finish("james_edition", ScrapeJamesEdition(outcome))

\* _start_actor_run has ended with the outcome r.
StartEnded(r) ==
    IF r.ok
    THEN /\ run_id' = r.v
         /\ Await("james_wait")
    ELSE /\ JamesReturns(r)
         /\ UNCHANGED run_id

\* JamesEditionScraper._start_actor_run and its response.
JamesStart(resp) ==
    /\ pc = "james_start"
    /\ net_log' = Append(net_log,
                      Request("james_edition", "runs",
                              JamesPayload(post_url), resp))
    /\ UNCHANGED <<hash_seed, canon_vars, price_vars, service_vars>>
    /\ UNCHANGED <<post_url, validated, matched_provider, scrape_calls,
                   dataset_id, polls>>
    /\ StartEnded(JamesStartActorRun(resp))

\* A round of the status loop has ended with the outcome r.
PollEnded(r) ==
    IF r.ok
    THEN /\ dataset_id' = r.v
         /\ Await("james_fetch")
         /\ UNCHANGED polls
    ELSE IF r = Sleep
         THEN /\ Len(polls) < MaxPolls
              /\ polls' = Append(polls, DEFAULT_POLL_INTERVAL_SECONDS)
              /\ UNCHANGED <<pc, dataset_id, adapter_result, results,
                             normalized_results, canon_calls, response>>
    ELSE /\ JamesReturns(r)
         /\ UNCHANGED <<dataset_id, polls>>

\* One round of JamesEditionScraper._wait_for_completion: the status
\* request and its response.
JamesPoll(resp) ==
    /\ pc = "james_wait"
    /\ net_log' = Append(net_log,
                      Request("james_edition", "actor-runs",
                              run_id, resp))
    /\ UNCHANGED <<hash_seed, canon_vars, price_vars, service_vars>>
    /\ UNCHANGED <<post_url, validated, matched_provider, scrape_calls, run_id>>
    /\ PollEnded(JamesPollRound(resp))

\* JamesEditionScraper._fetch_results and its response.
JamesFetch(resp) ==
    /\ pc = "james_fetch"
    /\ net_log' = Append(net_log,
                      Request("james_edition", "datasets",
                              dataset_id, resp))
    /\ UNCHANGED <<hash_seed, canon_vars, price_vars, service_vars>>
    /\ UNCHANGED <<post_url, validated, matched_provider, scrape_calls, run_id,
                   dataset_id, polls>>
    /\ JamesReturns(JamesFetchResults(resp))

\* The caller has its answer; the service takes the next call.
NextCall ==
    /\ pc = "done"
    /\ pc' = "idle"
    /\ post_url' = ""
    /\ validated' = <<>>
    /\ matched_provider' = NoProvider
    /\ scrape_calls' = <<>>
    /\ net_log' = <<>>
    /\ run_id' = Null
    /\ dataset_id' = Null
    /\ polls' = <<>>
    /\ adapter_result' = NotRun
    /\ results' = Null
    /\ normalized_results' = <<>>
    /\ canon_calls' = 0
    /\ response' = NoResponse
    /\ UNCHANGED <<hash_seed, canon_vars, price_vars, service_vars>>

Next ==
    \/ \E url \in PostUrls : ScrapeUrl(url)
    \/ \E resp \in IdealistaStandbyResponses : IdealistaStandby(resp)
    \/ \E resp \in IdealistaRunSyncResponses : IdealistaRunSync(resp)
    \/ \E resp \in ImmobiliareResponses : ImmobiliareRunSync(resp)
    \/ \E resp \in JamesStartResponses : JamesStart(resp)
    \/ \E resp \in JamesStatusResponses : JamesPoll(resp)
    \/ \E resp \in JamesDatasetResponses : JamesFetch(resp)
    \/ NextCall

Spec == Init /\ [][Next]_vars

(* --------------- JamesEditionScraper.scrape called directly ------------- *)

\* URLs that name a James Edition property listing.
ValidJamesUrls ==
    {"https://www.jamesedition.com/real_estate/villa-1",
     "https://www.jamesedition.com/real-estate/villa-1",
     "https://www.jamesedition.com/Real_Estate/villa-1"}

\* URLs without a scheme, without a host, with a host that does not end in
\* jamesedition.com, and with a path outside the two listing prefixes.
InvalidJamesUrls ==
    {"www.jamesedition.com/real_estate/villa-1",
     "https:///real_estate/villa-1",
     "/real_estate/villa-1",
     "https://www.jamesedition.com.example.org/real_estate/villa-1",
     "https://www.jamesedition.com/cars/6",
     "https://www.jamesedition.com/real_estate",
     ""}

\* The state after JamesEditionScraper(api_key) with no ScraperService
\* around it.
JamesInit ==
    /\ hash_seed = 1
    /\ apify_api_key = Str("apify_api_key")
    /\ workflows = <<>>
    /\ pc = "idle"
    /\ RequestIdle
    /\ CanonOff
    /\ PriceOff

\* JamesEditionScraper.scrape(url), lines 40-43, up to the first HTTP request.
JamesEditionScrape(url) ==
    /\ pc = "idle"
    /\ post_url' = url
    /\ UNCHANGED <<hash_seed, canon_vars, price_vars, service_vars>>
    /\ UNCHANGED <<validated, matched_provider, scrape_calls, net_log, run_id,
                   dataset_id, polls>>
    /\ IF JamesEditionValidateUrl(url)
       THEN Await("james_start")
       ELSE JamesReturns(Exc("ValueError", "Invalid James Edition property URL."))

JamesNext ==
    \/ \E url \in ValidJamesUrls \cup InvalidJamesUrls : JamesEditionScrape(url)
    \/ \E resp \in JamesStartResponses : JamesStart(resp)
    \/ \E resp \in JamesStatusResponses : JamesPoll(resp)
    \/ \E resp \in JamesDatasetResponses : JamesFetch(resp)
    \/ NextCall

SpecJames == JamesInit /\ [][JamesNext]_vars

(* ------------------------- dispatch: properties ------------------------ *)

\* A dispatch is under way or has ended.
Dispatched == pc \notin {"off", "idle"}

\* Positions in the registry whose validator accepts the posted URL.
Accepting(flows, url) == {i \in 1..Len(flows) : UrlValidator(flows[i], url)}

\* The provider at the earliest of the positions.
EarliestOf(flows, positions) ==
    flows[CHOOSE i \in positions : \A j \in positions : i <= j]

\* C1: whenever a dispatch has a registered provider whose validator accepts
\* the URL, the provider it selects is the earliest registered of them, also
\* when later ones accept the URL too; the scraper callable of that provider
\* is the only one invoked, and every HTTP request of the dispatch is sent by
\* that provider's adapter.
C1_FirstMatchWins ==
    (Dispatched /\ Accepting(workflows, post_url) # {}) =>
        /\ matched_provider = EarliestOf(workflows, Accepting(workflows, post_url))
        /\ scrape_calls = <<matched_provider>>
        /\ \A i \in 1..Len(net_log) : net_log[i].provider = matched_provider

\* A dispatch of a URL that every registered validator accepts has ended
\* after the first provider's adapter has sent requests.
C1_Witness ==
    /\ pc = "done"
    /\ Cardinality(Accepting(workflows, post_url)) = 3
    /\ matched_provider = "idealista"
    /\ scrape_calls = <<"idealista">>
    /\ Len(net_log) = 2

NotConfiguredError ==
    HTTPException(500, "Scraper service not configured. Set APIFY_API_KEY in environment.")

UnsupportedProviderError ==
    HTTPException(400,
        "URL does not match any supported scraper (Idealista, Immobiliare, James Edition).")

\* C2: a dispatch on a service constructed without a credential, whose
\* registry is therefore empty, ends with the not-configured error (500)
\* before any validator has run; a dispatch on a service with a registry in
\* which no validator accepts the URL ends with the unsupported-provider
\* error (400). In both cases no scraper callable is invoked and no HTTP
\* request is sent.
C2_NotConfiguredOrUnsupported ==
    /\ (Dispatched /\ workflows = <<>>) =>
          /\ ~Truthy(apify_api_key)
          /\ pc = "done"
          /\ response = NotConfiguredError
          /\ validated = <<>>
          /\ scrape_calls = <<>>
          /\ net_log = <<>>
    /\ (Dispatched /\ workflows # <<>> /\ Accepting(workflows, post_url) = {}) =>
          /\ pc = "done"
          /\ response = UnsupportedProviderError
          /\ scrape_calls = <<>>
          /\ net_log = <<>>

\* A service constructed with the empty string as its credential has
\* refused a URL that the Idealista validator accepts.
C2_Witness ==
    /\ pc = "done"
    /\ apify_api_key = Str("")
    /\ workflows = <<>>
    /\ IdealistaValidateUrl(post_url)
    /\ response = NotConfiguredError
    /\ validated = <<>>

\* The adapter's scrape() returned no item: None or an empty collection.
ZeroItems == adapter_result.ok /\ ~Truthy(adapter_result.v)

\* The first item the adapter's scrape() returned: the mapping itself for the
\* adapters that return one mapping, the first entry for the one that
\* returns a list.
FirstItem ==
    IF adapter_result.v.t = "list" THEN adapter_result.v.l[1] ELSE adapter_result.v

\* The adapter's scrape() returned items, the first a mapping without a
\* truthy value.
FirstItemEmpty ==
    /\ adapter_result.ok
    /\ Truthy(adapter_result.v)
    /\ adapter_result.v.t = "list" \/ matched_provider # "james_edition"
    /\ FirstItem.t = "map"
    /\ \A k \in DOMAIN FirstItem.m : ~Truthy(FirstItem.m[k])

\* C3: a dispatch whose adapter returned zero items, or items of which the
\* first has no truthy field value, ends with the empty-result error (404)
\* and without canonical listings; normalize_scraped_listing is called on
\* none of the items.
C3_EmptyResult ==
    (pc = "done" /\ (ZeroItems \/ FirstItemEmpty)) =>
        /\ response.kind = "HTTPException"
        /\ response.status_code = 404
        /\ normalized_results = <<>>
        /\ canon_calls = 0

\* A dispatch has ended with the empty-result error on a list of two items
\* whose first has no truthy value while the second is a full listing.
C3_Witness ==
    /\ pc = "done"
    /\ FirstItemEmpty
    /\ adapter_result.v.t = "list"
    /\ Len(adapter_result.v.l) = 2
    /\ adapter_result.v.l[2] = Map(JamesVilla)
    /\ response = NoValidData
    /\ canon_calls = 0

\* The fields of a canonical listing that are never to be missing.
RequiredFields == {"id", "title", "desc", "price", "rooms", "location", "images"}

\* Every required field is present in the listing and not None.
Complete(listing) ==
    \A k \in RequiredFields : k \in DOMAIN listing /\ listing[k] # Null

\* C4: a dispatch that returns has one canonical entry per raw item, and
\* every entry, whatever its raw item holds, has id, title, desc, price,
\* rooms, location and images, none of them None.
C4_EveryEntryComplete ==
    (pc = "done" /\ response = Returned) =>
        /\ results.t = "list"
        /\ Len(normalized_results) = Len(results.l)
        /\ \A i \in 1..Len(normalized_results) : Complete(normalized_results[i])

(* ----------------------- canonicalizer: properties --------------------- *)

\* normalize_scraped_listing(provider, raw) has been called.
Canonicalized == phase \in {"canon", "recanon"}

\* C5: normalize_scraped_listing returns a value and raises nothing, for
\* every provider name and every mapping of scalars, mappings and sequences.
C5_NeverFails == Canonicalized => normalized.ok

\* C6: the canonical images of every input are a list of one to three
\* entries, which is the placeholder alone when no image field of the input
\* yields an image.
C6_ImagesBounded ==
    (Canonicalized /\ normalized.ok) =>
        /\ "images" \in DOMAIN normalized.v
        /\ normalized.v["images"].t = "list"
        /\ Len(normalized.v["images"].l) \in 1..3
        /\ (\A k \in {"photos", "imageUrls", "images", "gallery",
                      "primaryImageUrl", "image"} : k \notin DOMAIN raw)
              => normalized.v["images"] = List(<<Str(PlaceholderImage)>>)

\* A finite number that is not negative.
FiniteNonNegative(v) ==
    \/ v.t = "float" /\ v.m >= 0
    \/ v.t = "int" /\ v.n >= 0

\* C7: the canonical price of every input is a finite number >= 0.0, and is
\* 0.0 when the input has no price.
C7_PriceFiniteNonNegative ==
    (Canonicalized /\ normalized.ok /\ "price" \in DOMAIN normalized.v) =>
        /\ FiniteNonNegative(normalized.v["price"])
        /\ ("price" \notin DOMAIN raw /\ "priceInfo" \notin DOMAIN raw)
              => normalized.v["price"] = Float(0, 0)

\* The id a source value gives: a string without its surrounding blanks
\* unless nothing is left of it, any other value as it is.
AsId(value) ==
    IF value.t = "str" /\ Strip(value.s) # "" THEN Str(Strip(value.s)) ELSE value

\* The id nested in the mapping under dataAttributes, None without one.
NestedId(raw0) ==
    IF Get(raw0, "dataAttributes").t = "map"
    THEN Get(Get(raw0, "dataAttributes").m, "id")
    ELSE Null

\* C8: the canonical id of every non-empty input is present and follows the
\* precedence: the explicit id if non-empty, else the id nested under
\* dataAttributes if non-empty, else a hash value in 0..999999.
C8_IdPrecedence ==
    (Canonicalized /\ raw # EmptyMap) =>
        /\ normalized.ok
        /\ "id" \in DOMAIN normalized.v
        /\ normalized.v["id"] # Null
        /\ IF NotInEmpties(Get(raw, "id"))
           THEN normalized.v["id"] = AsId(Get(raw, "id"))
           ELSE IF NotInEmpties(NestedId(raw))
                THEN normalized.v["id"] = AsId(NestedId(raw))
           ELSE /\ normalized.v["id"].t = "int"
                /\ normalized.v["id"].n \in 0..999999

\* The fields of a canonical listing that carry its meaning.
SemanticFields ==
    {"id", "url", "title", "desc", "price", "rooms", "location", "images"}

\* C9: normalizing a mapping that normalize_scraped_listing returned gives a
\* mapping with the same id, url, title, desc, price, rooms, location and
\* images.
C9_Idempotent ==
    phase = "recanon" =>
        /\ renormalized.ok
        /\ \A k \in SemanticFields \cap DOMAIN normalized.v :
              /\ k \in DOMAIN renormalized.v
              /\ renormalized.v[k] = normalized.v[k]

(* ----------------------- price parsers: properties --------------------- *)

\* C10: the price text "1.234,56 €" is parsed to the amount 1234.56 with
\* the currency "€", by the Idealista adapter's tokenization and by the
\* canonicalizer's parse of a formatted price.
C10_DecimalComma ==
    price_text = "1.234,56 €" =>
        /\ tokenized # NotRun =>
              tokenized = Ok([amount |-> Float(123456, 2), currency |-> Str("€")])
        /\ parsed_price # NotRun => parsed_price = Ok(Float(123456, 2))

\* C11: the price text "350.000", with a single '.' and no ',', is parsed to
\* the amount 350000.0, by the Idealista adapter's tokenization and by the
\* canonicalizer's parse of a formatted price.
C11_SingleSeparator ==
    price_text = "350.000" =>
        /\ tokenized # NotRun =>
              (tokenized.ok /\ tokenized.v.amount = Float(350000, 0))
        /\ parsed_price # NotRun => parsed_price = Ok(Float(350000, 0))

(* -------------------- Idealista adapter: properties -------------------- *)

\* The requests of the dispatch sent to an endpoint, by position.
Calls(endpoint) == {i \in 1..Len(net_log) : net_log[i].endpoint = endpoint}

\* The call answered by resp failed: no response, an error status, a body
\* that is no JSON, or a JSON object whose status is "failed".
StandbyFailed(resp) ==
    \/ resp = NetError
    \/ resp # NetError /\ resp.status_code >= 400
    \/ resp # NetError /\ resp.body = NotJson
    \/ /\ resp # NetError
       /\ resp.body # NotJson
       /\ resp.body.t = "map"
       /\ Get(resp.body.m, "status") = Str("failed")

\* C12: in a scrape of the Idealista adapter the standby endpoint is called
\* once and first; the run-sync endpoint is called once, with the payload
\* of the standby call, when the standby call failed in any way, and not
\* at all when it succeeded; the standby endpoint is never called again.
C12_OneFallback ==
    (matched_provider = "idealista") =>
        /\ Cardinality(Calls("standby")) <= 1
        /\ Cardinality(Calls("run-sync")) <= 1
        /\ net_log # <<>> => net_log[1].endpoint = "standby"
        /\ pc = "idealista_standby" => net_log = <<>>
        /\ pc = "idealista_run_sync" =>
              Len(net_log) = 1 /\ StandbyFailed(net_log[1].resp)
        /\ (pc = "done" /\ net_log # <<>>) =>
              IF StandbyFailed(net_log[1].resp)
              THEN /\ Len(net_log) = 2
                   /\ net_log[2].endpoint = "run-sync"
                   /\ net_log[2].sent = net_log[1].sent
              ELSE Len(net_log) = 1

\* A scrape has ended after a standby response 200 whose body says
\* "failed" and one run-sync call with the same payload.
C12_Witness ==
    /\ pc = "done"
    /\ matched_provider = "idealista"
    /\ Len(net_log) = 2
    /\ net_log[1].resp # NetError
    /\ net_log[1].resp.status_code = 200
    /\ net_log[1].resp.body # NotJson
    /\ net_log[1].resp.body.t = "map"
    /\ Get(net_log[1].resp.body.m, "status") = Str("failed")
    /\ net_log[2].endpoint = "run-sync"
    /\ net_log[2].sent = net_log[1].sent
    /\ net_log[2].sent.m["Url"] = Str("https://www.idealista.com/en/inmueble/1/")


(* ------------------- Idealista: both calls fail (C13) ------------------- *)

\* The response is a transport failure: no response at all, an error
\* status, or a body that is not JSON.
TransportFailed(resp) ==
    \/ resp = NetError
    \/ resp # NetError /\ (RaisesForStatus(resp) \/ resp.body = NotJson)

\* The "no data" answers of the three scraper callables and of scrape_url.
NoDataResponses ==
    {HTTPException(404, "Idealista scraper returned no data. Verify the listing is public."),
     HTTPException(404, "Immobiliare scraper returned no data. Verify the listing is public."),
     HTTPException(404, "James Edition scraper returned no data. Verify the listing is public."),
     NoValidData}

\* C13: when the standby call and the run-sync call of the Idealista adapter
\* both fail, scrape ends with the run-sync call's error, not with an empty
\* result, and the caller of scrape_url receives that error instead of a
\* "no data" answer.
C13_FallbackErrorSurfaces ==
    (/\ pc = "done"
     /\ matched_provider = "idealista"
     /\ Len(net_log) = 2
     /\ TransportFailed(net_log[2].resp))
        => /\ ~adapter_result.ok
           /\ response \notin NoDataResponses


(* ------------------ James Edition: the status loop (C14) ---------------- *)

\* The "data" mapping of a 200 response with a JSON body that has one;
\* the empty mapping for every other response.
RunDataOf(resp) ==
    IF /\ resp # NetError
       /\ resp.status_code = 200
       /\ resp.body # NotJson
       /\ resp.body.t = "map"
       /\ "data" \in DOMAIN resp.body.m
       /\ resp.body.m["data"].t = "map"
    THEN resp.body.m["data"].m
    ELSE EmptyMap

\* The run's status is a string that names neither success nor failure.
NonTerminal(resp) ==
    /\ Get(RunDataOf(resp), "status").t = "str"
    /\ Get(RunDataOf(resp), "status").s \notin {"SUCCEEDED", "FAILED", "TIMED-OUT"}

\* The run has succeeded and names its dataset.
Succeeded(resp) ==
    /\ Get(RunDataOf(resp), "status") = Str("SUCCEEDED")
    /\ Get(RunDataOf(resp), "defaultDatasetId").t = "str"
    /\ Get(RunDataOf(resp), "defaultDatasetId").s # ""

\* The last of a non-empty set of positions.
LastOf(positions) == CHOOSE i \in positions : \A j \in positions : j <= i

\* The status answers so far are non-terminal ones, except that the last
\* may be the success.
OnlyWaiting(st) ==
    /\ st # {}
    /\ \A i \in st \ {LastOf(st)} : NonTerminal(net_log[i].resp)
    /\ NonTerminal(net_log[LastOf(st)].resp) \/ Succeeded(net_log[LastOf(st)].resp)

\* After n non-terminal answers the adapter has slept n times and waits for
\* the next answer; after the success it has slept n times, fetches once
\* and returns what the fetch gave.
PolledOnce(st) ==
    /\ Calls("runs") = {1}
    /\ st = 2..(Cardinality(st) + 1)
    /\ \A j \in 1..Len(polls) : polls[j] = 5
    /\ IF NonTerminal(net_log[LastOf(st)].resp)
       THEN /\ pc = "james_wait"
            /\ Len(polls) = Cardinality(st)
            /\ Calls("datasets") = {}
       ELSE /\ Len(polls) = Cardinality(st) - 1
            /\ pc \in {"james_fetch", "done"}
            /\ pc = "james_fetch" => Calls("datasets") = {}
            /\ pc = "done" =>
                  /\ Calls("datasets") = {Cardinality(st) + 2}
                  /\ Len(net_log) = Cardinality(st) + 2
                  /\ LET fetched == net_log[Len(net_log)].resp
                     IN (/\ fetched # NetError
                         /\ fetched.status_code = 200
                         /\ fetched.body # NotJson)
                            => adapter_result = Ok(fetched.body)

\* C14: when the status endpoint answers n non-terminal statuses and then
\* SUCCEEDED with a dataset id, the James Edition adapter has made one
\* submit, n+1 status calls with n sleeps of 5 seconds each, one fetch, and
\* returns the fetched items; as long as the answers are non-terminal it
\* keeps polling.
C14_PollsUntilSucceeded ==
    (matched_provider = "james_edition" /\ OnlyWaiting(Calls("actor-runs")))
        => PolledOnce(Calls("actor-runs"))

C14_Witness ==
    /\ pc = "done"
    /\ matched_provider = "james_edition"
    /\ Len(net_log) = 5
    /\ NonTerminal(net_log[2].resp)
    /\ NonTerminal(net_log[3].resp)
    /\ Succeeded(net_log[4].resp)
    /\ polls = <<5, 5>>
    /\ net_log[5].endpoint = "datasets"
    /\ adapter_result = Ok(List(<<Map(JamesVilla)>>))


(* ---------------- James Edition: the run has failed (C15) --------------- *)

\* The run's status is one of the failure statuses.
RunFailed(resp) ==
    Get(RunDataOf(resp), "status") \in {Str("FAILED"), Str("TIMED-OUT")}

\* The status answer at position i ended the scrape: it is the last
\* request, and the error that scrape raised and the caller received
\* carries the status.
EndedWithStatus(i, status) ==
    /\ pc = "done"
    /\ i = Len(net_log)
    /\ Calls("datasets") = {}
    /\ adapter_result.ok = FALSE
    /\ adapter_result.err = "RuntimeError"
    /\ adapter_result.msg = "James Edition scraper run ended with status " \o status
    /\ response = HTTPException(500, adapter_result.msg)

\* C15: when a status call of the James Edition adapter reports FAILED or
\* TIMED-OUT, scrape raises an error whose message carries that status, the
\* caller receives it as a server error, no status call follows and no
\* fetch is made.
C15_FailedRunEnds ==
    \A i \in Calls("actor-runs") :
        RunFailed(net_log[i].resp) =>
            EndedWithStatus(i, RunDataOf(net_log[i].resp)["status"].s)

C15_Witness ==
    /\ pc = "done"
    /\ matched_provider = "james_edition"
    /\ Len(net_log) = 3
    /\ NonTerminal(net_log[2].resp)
    /\ net_log[3].endpoint = "actor-runs"
    /\ RunFailed(net_log[3].resp)
    /\ response =
          HTTPException(500, "James Edition scraper run ended with status TIMED-OUT")


(* ------------------- James Edition: invalid URL (C16) ------------------- *)

\* C16: JamesEditionScraper.scrape on a URL that its validation rejects
\* raises the invalid-URL error at once and makes no request at all.
C16_InvalidUrlNoCalls ==
    (pc # "idle" /\ post_url \in InvalidJamesUrls)
        => /\ pc = "done"
           /\ net_log = <<>>
           /\ adapter_result = Exc("ValueError", "Invalid James Edition property URL.")

C16_Witness ==
    /\ pc = "done"
    /\ post_url = "https://www.jamesedition.com/cars/6"
    /\ net_log = <<>>
    /\ adapter_result = Exc("ValueError", "Invalid James Edition property URL.")


(* ---------------- James Edition: the start is refused (C17) ------------- *)

\* The start request was answered, with a status other than 201.
StartRefused ==
    /\ net_log # <<>>
    /\ net_log[1].endpoint = "runs"
    /\ net_log[1].resp # NetError
    /\ net_log[1].resp.status_code # 201

\* C17: when the start request of the James Edition adapter is answered
\* with a status other than 201, scrape raises the failed-to-start error
\* naming that status, the caller receives it as a server error, and the
\* start request stays the only request: no second start, no status call,
\* no fetch.
C17_StartRefusedEnds ==
    StartRefused =>
        /\ pc = "done"
        /\ Len(net_log) = 1
        /\ adapter_result.ok = FALSE
        /\ adapter_result.err = "RuntimeError"
        /\ adapter_result.msg =
              "Failed to start James Edition scraper: "
                 \o NatToStr(net_log[1].resp.status_code) \o " - "
        /\ response = HTTPException(500, adapter_result.msg)

C17_Witness ==
    /\ pc = "done"
    /\ matched_provider = "james_edition"
    /\ net_log # <<>>
    /\ net_log[1].resp = Http(200, Map(M1("data", Map(M1("id", Str("run1"))))))
    /\ Len(net_log) = 1
    /\ response = HTTPException(500, "Failed to start James Edition scraper: 200 - ")


(* -------------- James Edition: a start without a run id (C18) ----------- *)

\* A 201 body without data["data"]["id"]: not JSON, no mapping, no "data",
\* a "data" that is no mapping, or a "data" without "id".
LacksRunId(body) ==
    \/ body = NotJson
    \/ body # NotJson /\ body.t # "map"
    \/ body # NotJson /\ body.t = "map" /\ "data" \notin DOMAIN body.m
    \/ /\ body # NotJson /\ body.t = "map" /\ "data" \in DOMAIN body.m
       /\ \/ body.m["data"].t # "map"
          \/ body.m["data"].t = "map" /\ "id" \notin DOMAIN body.m["data"].m

\* The start request was answered 201 with a body that lacks the run id.
StartedWithoutRunId ==
    /\ net_log # <<>>
    /\ net_log[1].endpoint = "runs"
    /\ net_log[1].resp # NetError
    /\ net_log[1].resp.status_code = 201
    /\ LacksRunId(net_log[1].resp.body)

\* C18: when the start request of the James Edition adapter is answered 201
\* with a body that lacks the nested run id, scrape raises the same
\* unexpected-response error for every such body, the caller receives it as
\* a server error, and no status call and no fetch follows.
C18_MalformedStartSameError ==
    StartedWithoutRunId =>
        /\ pc = "done"
        /\ Len(net_log) = 1
        /\ adapter_result =
              Exc("RuntimeError", "Unexpected response format from Apify API")
        /\ response = HTTPException(500, "Unexpected response format from Apify API")


(* --------------------- Immobiliare: one call (C19) ---------------------- *)

\* The response carries a JSON body under a status that is no error.
Answered(resp) ==
    /\ resp # NetError
    /\ ~RaisesForStatus(resp)
    /\ resp.body # NotJson

\* C19: the Immobiliare adapter makes exactly one HTTP call; an error status
\* makes the scrape fail with an error the caller can tell from the "no
\* data" answer of an empty result; of an array body the first element is
\* processed, an object body is processed as it is.
C19_OneCallTransportOrData ==
    (pc = "done" /\ matched_provider = "immobiliare" /\ net_log # <<>>) =>
        /\ Len(net_log) = 1
        /\ net_log[1].endpoint = "run-sync"
        /\ (net_log[1].resp # NetError /\ RaisesForStatus(net_log[1].resp)) =>
              /\ ~adapter_result.ok
              /\ response \notin NoDataResponses
        /\ (Answered(net_log[1].resp) /\ net_log[1].resp.body.t = "list"
                /\ net_log[1].resp.body.l # <<>>) =>
              adapter_result =
                 Ok(ImmobiliareProcessedDict(PyDict(net_log[1].resp.body.l[1])))
        /\ (Answered(net_log[1].resp) /\ net_log[1].resp.body.t = "map"
                /\ net_log[1].resp.body.m # EmptyMap) =>
              adapter_result =
                 Ok(ImmobiliareProcessedDict(PyDict(net_log[1].resp.body)))


(* ------------- James Edition: the order of the requests (C20) ----------- *)

\* The start request was answered 201 with a body that names a run.
Started ==
    /\ net_log # <<>>
    /\ net_log[1].endpoint = "runs"
    /\ net_log[1].resp # NetError
    /\ net_log[1].resp.status_code = 201
    /\ ~LacksRunId(net_log[1].resp.body)

\* Every status call comes after the accepted start, before any fetch, and
\* asks for the run that the start named.
StatusCallsInOrder ==
    \A i \in Calls("actor-runs") :
        /\ Started
        /\ i > 1
        /\ net_log[i].sent = net_log[1].resp.body.m["data"].m["id"]
        /\ \A j \in Calls("datasets") : i < j

\* A fetch comes right after the status answer that reported success with
\* a dataset id, and asks for that dataset.
FetchAfterSuccess ==
    \A j \in Calls("datasets") :
        /\ j > 2
        /\ net_log[j - 1].endpoint = "actor-runs"
        /\ Succeeded(net_log[j - 1].resp)
        /\ net_log[j].sent = RunDataOf(net_log[j - 1].resp)["defaultDatasetId"]

\* C20: the requests of one James Edition scrape are one start, then status
\* calls, then at most one fetch: no status call before a 201 answer to the
\* start, every status call for the run id the start returned, the fetch
\* only after a SUCCEEDED answer with a dataset id and for that dataset,
\* and no status call after the fetch.
C20_SubmitPollFetch ==
    matched_provider = "james_edition" =>
        /\ Calls("runs") \subseteq {1}
        /\ Cardinality(Calls("datasets")) <= 1
        /\ Calls("runs") \cup Calls("actor-runs") \cup Calls("datasets")
              = 1..Len(net_log)
        /\ StatusCallsInOrder
        /\ FetchAfterSuccess

C20_Witness ==
    /\ pc = "done"
    /\ matched_provider = "james_edition"
    /\ Len(net_log) = 4
    /\ net_log[1].endpoint = "runs"
    /\ net_log[2].endpoint = "actor-runs" /\ net_log[2].sent = Str("run1")
    /\ net_log[3].endpoint = "actor-runs" /\ net_log[3].sent = Str("run1")
    /\ net_log[4].endpoint = "datasets" /\ net_log[4].sent = Str("ds1")


(* --------- James Edition: a run that has ended upstream (C21) ----------- *)

\* The statuses with which a run has ended upstream.
EndedStatuses == {"SUCCEEDED", "FAILED", "TIMED-OUT", "ABORTED"}

\* The status answer reports a run that has ended.
UpstreamEnded(resp) ==
    /\ Get(RunDataOf(resp), "status").t = "str"
    /\ Get(RunDataOf(resp), "status").s \in EndedStatuses

\* The latest status answer reports a run that has ended.
ReportedEnded ==
    /\ Calls("actor-runs") # {}
    /\ UpstreamEnded(net_log[LastOf(Calls("actor-runs"))].resp)

\* The upstream keeps reporting the end of a run: once a status answer has
\* reported it, resp is that answer again.
KeepsReporting(resp) ==
    ReportedEnded => resp = net_log[LastOf(Calls("actor-runs"))].resp

\* One round of _wait_for_completion against an upstream that keeps
\* reporting the end of a run, up to the call of time.sleep when the loop
\* goes round again.  After MaxPolls sleeps the log is full and further
\* rounds are not recorded.
JamesPollLive(resp) ==
    /\ pc = "james_wait"
    /\ KeepsReporting(resp)
    /\ IF JamesPollRound(resp) = Sleep
       THEN /\ pc' = "james_sleep"
            /\ IF Len(polls) < MaxPolls
               THEN /\ net_log' = Append(net_log,
                                        Request("james_edition", "actor-runs",
                                                run_id, resp))
                    /\ polls' = Append(polls, DEFAULT_POLL_INTERVAL_SECONDS)
               ELSE UNCHANGED <<net_log, polls>>
            /\ UNCHANGED <<hash_seed, canon_vars, price_vars, service_vars>>
            /\ UNCHANGED <<post_url, validated, matched_provider, scrape_calls,
                           run_id, dataset_id, adapter_result, results,
                           normalized_results, canon_calls, response>>
       ELSE JamesPoll(resp)

\* time.sleep(poll_interval) returns and the loop goes round again.
JamesWake ==
    /\ pc = "james_sleep"
    /\ pc' = "james_wait"
    /\ UNCHANGED <<hash_seed, canon_vars, price_vars, service_vars>>
    /\ UNCHANGED <<post_url, validated, matched_provider, scrape_calls, net_log,
                   run_id, dataset_id, polls, adapter_result, results,
                   normalized_results, canon_calls, response>>

JamesLiveNext ==
    \/ \E url \in ValidJamesUrls \cup InvalidJamesUrls : JamesEditionScrape(url)
    \/ \E resp \in JamesStartResponses : JamesStart(resp)
    \/ \E resp \in JamesStatusResponses : JamesPollLive(resp)
    \/ JamesWake
    \/ \E resp \in JamesDatasetResponses : JamesFetch(resp)

\* Every request of the adapter is answered or fails within its timeout and
\* every sleep ends, so each step of scrape that can be taken is taken.
SpecJamesLive ==
    /\ JamesInit
    /\ [][JamesLiveNext]_vars
    /\ WF_vars(\E url \in ValidJamesUrls \cup InvalidJamesUrls : JamesEditionScrape(url))
    /\ WF_vars(\E resp \in JamesStartResponses : JamesStart(resp))
    /\ WF_vars(\E resp \in JamesStatusResponses : JamesPollLive(resp))
    /\ WF_vars(JamesWake)
    /\ WF_vars(\E resp \in JamesDatasetResponses : JamesFetch(resp))

\* C21: once the upstream run reports that it has ended (succeeded,
\* failed, timed out or otherwise ended) and keeps reporting it, the poll
\* loop of the James Edition adapter is left and scrape ends, with the items
\* or with an error.
C21_EndedRunEndsScrape == ReportedEnded ~> (pc = "done")


(* ---------------- canonical price: nested number first (C22) ------------ *)

\* The four nested fields of a price block.
NestedPriceKeys == {"amount", "parsed", "dataPrice", "value"}

\* The value is a number other than zero, or a text that spells one.
NonZeroNumber(v) ==
    /\ v.t \in {"int", "float", "str"}
    /\ ToFloat(v).ok
    /\ ToFloat(v).v.t = "float"
    /\ ToFloat(v).v.m # 0

\* The non-zero numbers that the nested fields of the price block hold, as
\* floats.
NestedNumbers(block) ==
    {ToFloat(block[k]).v :
        k \in {f \in NestedPriceKeys \cap DOMAIN block : NonZeroNumber(block[f])}}

\* The price block of a raw listing is a mapping.
HasPriceBlock ==
    /\ raw # EmptyMap
    /\ PyOr(PyOr(Get(raw, "price"), Get(raw, "priceInfo")), Map(EmptyMap)).t = "map"

\* C22: when the price block is a mapping in which one of amount, parsed,
\* dataPrice, value holds a non-zero number, the canonical price is such a
\* nested number, whatever the formatted string says.
C22_NestedNumberWins ==
    (/\ Canonicalized
     /\ normalized.ok
     /\ HasPriceBlock
     /\ NestedNumbers(PyOr(PyOr(Get(raw, "price"), Get(raw, "priceInfo")),
                           Map(EmptyMap)).m) # {})
        => normalized.v["price"]
              \in NestedNumbers(PyOr(PyOr(Get(raw, "price"), Get(raw, "priceInfo")),
                                     Map(EmptyMap)).m)


(* --------------- Idealista: the tokenized price end to end (C23) -------- *)

\* The amount in the priceInfo block of the processed listing at position i
\* of results; Null when there is none.
TokenizedAmount(i) ==
    IF /\ results.t = "list"
       /\ i \in 1..Len(results.l)
       /\ results.l[i].t = "map"
       /\ Get(results.l[i].m, "priceInfo").t = "map"
    THEN Get(Get(results.l[i].m, "priceInfo").m, "amount")
    ELSE Null

\* C23: for the Idealista provider, whenever the adapter's tokenization of
\* the raw price string put an amount into the priceInfo block of the
\* processed listing, the canonical price that scrape_url returns for that
\* listing is that amount; the raw price string kept in the processed
\* listing does not override it.
C23_TokenizedAmountIsPrice ==
    (pc = "done" /\ matched_provider = "idealista" /\ response = Returned) =>
        \A i \in 1..Len(normalized_results) :
            TokenizedAmount(i) # Null =>
                normalized_results[i]["price"] = TokenizedAmount(i)

=============================================================================
